---- MODULE Spec2Model ----
(***************************************************************************)
(* Model of the session/topology state machine of JitsiConference          *)
(* (lib-jitsi-meet): the P2P <-> bridge (JVB) switch, the deferred P2P     *)
(* start, the ICE failure recovery and the local track bookkeeping.        *)
(*                                                                         *)
(* One action per handler of JitsiConference.  Asynchronous continuations  *)
(* (timers, promise callbacks) are actions of their own.                   *)
(***************************************************************************)
EXTENDS Integers, Sequences, FiniteSets, TLC

(* ------------------------------------------------------------------ *)
(* Bounds of the model                                                 *)
(* ------------------------------------------------------------------ *)
\* longest endpoint id used in the leader election specification
MaxIdLen == 2
\* number of Jingle sessions created during one behaviour
MaxSessions == 2
\* number of ICE-failed signals of bridge sessions that may be waiting for, or
\* have had, their backoff
MaxIceFailures == 4
\* number of local track operations that may be pending at a time
MaxPendingOps == 2
\* number of entries of rtc.localTracks
MaxLocalTracks == 3
\* number of context objects handed to _updateRoomPresence
MaxContexts == 2
\* the number of presence errors 'Room creation is restricted' a room is sent
MaxRoomCreationErrors == 4
\* the last millisecond Date.now() returns
MaxNow == 2
\* the number of ChatRoom objects the plugin creates
MaxRooms == 2

(* ------------------------------------------------------------------ *)
(* Program constants                                                   *)
(* ------------------------------------------------------------------ *)
\* service/connectivity/Constants (value as given in the specification)
MAX_CONNECTION_RETRIES == 3
\* options.config.p2p.backToP2PDelay default, in seconds
DefaultBackToP2PDelay == 5

Null == 0

(* ------------------------------------------------------------------ *)
(* Endpoint ids: strings, modelled as sequences of character codes     *)
(* ------------------------------------------------------------------ *)
Chars == 1..2

SeqsUpTo(n) == UNION { [1..k -> Chars] : k \in 1..n }

Ids == SeqsUpTo(MaxIdLen)

\* the resource 'focus' of Jicofo
Focus == <<0>>
\* the local endpoint id of the conference model
Self == <<1, 2>>
\* the remote endpoints that may enter the room
RemoteIds == { <<1>>, <<2>> }

\* JavaScript's a > b on strings: code units are compared left to right, and
\* a proper prefix is the smaller string.
RECURSIVE JsStringGreater(_, _)
JsStringGreater(a, b) ==
    IF a = <<>> THEN FALSE
    ELSE IF b = <<>> THEN TRUE
    ELSE IF Head(a) # Head(b) THEN Head(a) > Head(b)
    ELSE JsStringGreater(Tail(a), Tail(b))

\* Mutation of InitiatorRule: the ids are ordered by their length only.
InitiatorRuleByLength(myId, peersId) ==
    IF Len(myId) > Len(peersId) THEN "other"
    ELSE IF myId = peersId THEN "same"
    ELSE "me"

\* The election of _maybeStartOrStopP2P: "other" = the other peer should start
\* P2P, "same" = the logged error, "me" = this endpoint initiates.
InitiatorRule(myId, peersId) ==
    IF JsStringGreater(myId, peersId) THEN "other"
    ELSE IF myId = peersId THEN "same"
    ELSE "me"

(* ------------------------------------------------------------------ *)
(* State                                                               *)
(* ------------------------------------------------------------------ *)
VARIABLES
    conf,           \* the JitsiConference object (its fields, see InitConf)
    localTracks,    \* rtc.localTracks: the local tracks held by the conference
    pendingOps,     \* track operations whose promise has not settled yet
    hist,           \* history of the ICE recovery (observation only)
    el              \* the two endpoints of the leader election specification

vars == << conf, localTracks, pendingOps, hist, el >>

NoJid == <<>>

\* options.config as far as the topology reads it
DefaultOptions ==
    [ p2pEnabled |-> TRUE, p2pTestMode |-> FALSE, forceInitiator |-> FALSE,
      forceResponder |-> FALSE, firefoxNoP2P |-> FALSE, e2ee |-> FALSE,
      allowMultipleTracks |-> FALSE,
      backToP2PDelay |-> << >> ]   \* config.p2p.backToP2PDelay: << >> or << seconds >>

\* A configured delay, shorter than the default
ConfiguredBackToP2PDelay == 2

\* constructor: this.backToP2PDelay = isValidNumber(delay) ? delay : 5
BackToP2PDelay(options) ==
    IF options.backToP2PDelay # << >> THEN options.backToP2PDelay[1]
    ELSE DefaultBackToP2PDelay

Configs ==
    { DefaultOptions,
      [DefaultOptions EXCEPT !.p2pTestMode = TRUE],
      [DefaultOptions EXCEPT !.e2ee = TRUE] }

\* ChatRoom.leave(): the MUC_LEFT listener and the 5 s timeout it installs, the
\* promise of the confirmation and the promise it returns; "none" before the call
RoomLeaveIdle ==
    [ listener |-> FALSE, timeout |-> FALSE, confirmation |-> "none", promise |-> "none" ]

\* The fields of a JitsiConference right after its constructor has run.
\* room.presMap.nodes is empty, the signaling layer knows no source, and no
\* context object has been through _updateRoomPresence. sends counts the
\* presence stanzas sent by the invocations that were given the context.
NoPresence ==
    [ nodes |-> << >>,
      sourceState |-> << >>,
      ctx |-> [ k \in 1..MaxContexts |-> [ skip |-> FALSE, sends |-> 0 ] ] ]

\* JIDs are strings "node@domain" and "node@domain/resource": the sequence
\* of the bare part and, if there is one, the resource.
BareNodes == { "room", "lobby" }

\* Strophe.getBareJidFromJid(jid): the part before the first '/'
GetBareJidFromJid(jid) == << jid[1] >>

\* Strophe.getResourceFromJid(jid): the part after the first '/', or null
GetResourceFromJid(jid) == IF Len(jid) < 2 THEN NoJid ELSE jid[2]

\* MucConnectionPlugin constructor: this.rooms = {}
NoRooms == [ b \in { << n >> : n \in BareNodes } |-> Null ]

InitConf(options, myId) ==
    [ options |-> options,
      myId |-> myId,                         \* resource of room.myroomjid
      room |-> "created",                    \* "created" | "joined" | "null"
      participants |-> {},                   \* the JitsiParticipants, one per id
      hasVisitors |-> "undefined",
      transcribingEnabled |-> "undefined",
      sessions |-> << >>,                    \* every JingleSessionPC created, by sid
      jvbJingleSession |-> Null,
      p2pJingleSession |-> Null,
      p2p |-> FALSE,
      isP2PConnectionInterrupted |-> FALSE,
      isJvbConnectionInterrupted |-> FALSE,
      jvbMediaTransferActive |-> TRUE,
      jvbAcceptPending |-> FALSE,            \* acceptOffer of the bridge session pending
      p2pTerminatePending |-> FALSE,         \* result of a P2P session-terminate pending
      deferredStartP2PTask |-> NoJid,        \* the handle: the jid its timer is bound to
      deferredTimers |-> << >>,              \* the armed timers of deferred P2P starts
      iceRestarts |-> 0,
      delayedIceFailed |-> "none",           \* "none" | "armed" | "canceled"
      iceTimers |-> << >>,                   \* pending backoff timers
      roomLeave |-> RoomLeaveIdle,           \* the room.leave() of leave()
      attachedTracks |-> {},                 \* the _tracks of the participants
      mutedTracks |-> {},                    \* the local tracks whose isMuted() is true
      presence |-> NoPresence,               \* presMap, source state, context objects
      chatRooms |-> << >>,                   \* every ChatRoom created, where followed
      emuc |-> NoRooms,                      \* connection.emuc.rooms, by bare room JID
      now |-> 0,                             \* Date.now(), in milliseconds
      \* whether the auxiliary fields are recorded (the tracks each session
      \* carries, the restorations behind each backoff timer); no handler
      \* reads what is recorded
      auxiliaryRecorded |-> FALSE,
      op |-> "constructor",                  \* the handler that ran last
      arg |-> "none",                        \* the role of the session it ran for
      fx |-> {},                             \* what that handler did
      emitted |-> << >> ]                    \* the same in order, if recorded

\* Mutation of Truthy: a flag that has never been set counts as set.
TruthyUnlessFalse(tri) == tri # "false"

\* !this._hasVisitors, !this._transcribingEnabled: the flags are undefined until
\* the first update
Truthy(tri) == tri = "true"

Begin(c, op, arg) == [c EXCEPT !.op = op, !.arg = arg, !.fx = {}, !.emitted = << >>]

\* What session s is to the conference when a handler is entered for it: the
\* handlers compare the session with this.p2pJingleSession and
\* this.jvbJingleSession and read session.isP2P.
SessionRole(c, s) ==
    IF s = c.p2pJingleSession THEN "p2p"
    ELSE IF s = c.jvbJingleSession THEN "jvb"
    ELSE IF c.sessions[s].isP2P THEN "formerP2P"
    ELSE "formerJvb"

\* this.p2pJingleSession = null: the conference keeps no reference to the
\* session, whose remote JID and initiator flag it can no longer read.
ReleaseP2PSession(c) ==
    IF c.p2pJingleSession = Null THEN c
    ELSE [c EXCEPT !.sessions[c.p2pJingleSession] =
                       [@ EXCEPT !.isInitiator = FALSE, !.remote = NoJid, !.tracks = {},
                                 !.remoteTracks = {}],
                   !.p2pJingleSession = Null]

\* eventEmitter.emit(e, x): about is { x }, or {} for an event that is
\* emitted without such an argument
EmitFor(c, e, about) ==
    [c EXCEPT !.fx = @ \cup {e},
              !.emitted = IF c.auxiliaryRecorded
                          THEN Append(@, [e |-> e, about |-> about]) ELSE @]

Emit(c, e) == EmitFor(c, e, {})

(* ------------------------------------------------------------------ *)
(* Queries of JitsiConference                                          *)
(* ------------------------------------------------------------------ *)
IsP2PEnabled(c) == c.options.p2pEnabled

IsP2PTestModeEnabled(c) == c.options.p2pTestMode

IsE2EEEnabled(c) == c.options.e2ee

IsJoined(c) == c.room = "joined"

IsP2PActive(c) == c.p2p

\* Mutation of GetActiveMediaSession: the bridge session whatever the P2P status.
GetActiveMediaSessionIgnoringP2P(c) == c.jvbJingleSession

GetActiveMediaSession(c) ==
    IF IsP2PActive(c) THEN c.p2pJingleSession ELSE c.jvbJingleSession

IsConnectionInterrupted(c) ==
    IF IsP2PActive(c) THEN c.isP2PConnectionInterrupted ELSE c.isJvbConnectionInterrupted

MyUserId(c) == IF c.room # "null" THEN c.myId ELSE NoJid

GetParticipants(c) == c.participants

HasParticipant(c, id) == \E p \in c.participants : p.id = id

\* Mutation of ShouldBeInP2PMode: any number of peers will do.
ShouldBeInP2PModeAnyPeerCount(c) ==
    LET peers == GetParticipants(c)
        hasBotPeer == \E p \in peers : p.botType = "poltergeist" \/ p.jigasi
    IN  /\ Cardinality(peers) >= 1
        /\ ~hasBotPeer
        /\ ~Truthy(c.hasVisitors)
        /\ ~Truthy(c.transcribingEnabled)

ShouldBeInP2PMode(c) ==
    LET peers == GetParticipants(c)
        hasBotPeer == \E p \in peers : p.botType = "poltergeist" \/ p.jigasi
    IN  /\ Cardinality(peers) = 1
        /\ ~hasBotPeer
        /\ ~Truthy(c.hasVisitors)
        /\ ~Truthy(c.transcribingEnabled)

\* clearTimeout(this.deferredStartP2PTask): the handle is that of the timer
\* armed last
ClearTimeout(timers) ==
    IF timers = << >> THEN timers ELSE SubSeq(timers, 1, Len(timers) - 1)

(* ------------------------------------------------------------------ *)
(* P2P topology helpers                                                *)
(* ------------------------------------------------------------------ *)
\* Mutation of MaybeClearDeferredStartP2P: the deferred start is not cancelled.
MaybeClearDeferredStartP2PSkipped(c) == c

MaybeClearDeferredStartP2P(c) ==
    IF c.deferredStartP2PTask # NoJid
    THEN Emit([c EXCEPT !.deferredStartP2PTask = NoJid,
                        !.deferredTimers = ClearTimeout(@)],
              "clearDeferredStartP2P")
    ELSE c

SessionIsP2P(c, s) == c.sessions[s].isP2P

\* the remote track of the owner on the session s
RemoteTrack(s, owner) == [session |-> s, owner |-> owner]

\* peerconnection.getRemoteTracks() of the session s
GetRemoteTracks(c, s) == { RemoteTrack(s, o) : o \in c.sessions[s].remoteTracks }

\* onRemoteTrackAdded(track): a track of the kind that is not the active one
\* is ignored; otherwise it is pushed to the _tracks of its participant, if
\* the participant is in the roster.
OnRemoteTrackAdded(c, track) ==
    IF SessionIsP2P(c, track.session) # IsP2PActive(c) THEN c
    ELSE Emit(IF HasParticipant(c, track.owner)
              THEN [c EXCEPT !.attachedTracks = @ \cup { track }] ELSE c,
              "TRACK_ADDED")

\* _addRemoteTracks(logName, remoteTracks): onRemoteTrackAdded for every
\* track whose owner is in the roster; the calls do not depend on each
\* other, so that the outcome is that of any order.
AddRemoteTracks(c, remoteTracks) ==
    LET added == { t \in remoteTracks : HasParticipant(c, t.owner) }
    IN  IF added = {} THEN c
        ELSE IF \E t \in added : SessionIsP2P(c, t.session) # IsP2PActive(c) THEN c
        ELSE Emit([c EXCEPT !.attachedTracks = @ \cup added], "TRACK_ADDED")

\* _removeRemoteTracks(sessionNickname, remoteTracks): onRemoteTrackRemoved
\* for every track, which splices it out of the _tracks of its participant
RemoveRemoteTracks(c, remoteTracks) ==
    IF c.attachedTracks \cap remoteTracks = {} THEN c
    ELSE Emit([c EXCEPT !.attachedTracks = @ \ remoteTracks], "TRACK_REMOVED")

SetP2PStatus(c, newStatus) ==
    IF c.p2p = newStatus THEN c
    ELSE LET c1 == Emit([c EXCEPT !.p2p = newStatus], "P2P_STATUS")
         IN  Emit(c1, IF IsConnectionInterrupted(c1)
                      THEN "CONNECTION_INTERRUPTED" ELSE "CONNECTION_RESTORED")

NewSession(c, isP2P, isInitiator, remote) ==
    [c EXCEPT !.sessions =
        Append(@, [isP2P |-> isP2P, isInitiator |-> isInitiator, remote |-> remote,
                   \* the promise of invite() / the callbacks of acceptOffer()
                   \* of a P2P session, and the promise of its setAnswer()
                   offer |-> IF isP2P THEN "pending" ELSE "none",
                   answer |-> "none",
                   \* the local tracks the session carries: those handed to
                   \* invite(localTracks) / acceptOffer(..., localTracks)
                   \* peerconnection.getRemoteTracks(): the owners, each of
                   \* whom has one remote track on the session
                   remoteTracks |-> {},
                   tracks |-> IF c.auxiliaryRecorded
                              THEN { localTracks[i].name : i \in DOMAIN localTracks }
                              ELSE {}])]

\* this.room.myroomjid is read before the session is created: it throws once
\* leave() has set this.room to null.
StartP2PSession(c, remoteJid) ==
    LET c1 == MaybeClearDeferredStartP2P(c)
    IN  IF c1.p2pJingleSession # Null THEN c1
        ELSE LET c2 == [c1 EXCEPT !.isP2PConnectionInterrupted = FALSE]
             IN  IF c2.room = "null" THEN Emit(c2, "TypeError")
                 ELSE LET c3 == NewSession(c2, TRUE, TRUE, remoteJid)
                      IN  Emit([c3 EXCEPT !.p2pJingleSession = Len(c3.sessions)],
                               "startP2P")

\* Mutation of SuspendMediaTransferForJvbConnection: the transfer stays active.
SuspendMediaTransferSkipped(c) == Emit(c, "suspendJvb")

SuspendMediaTransferForJvbConnection(c) ==
    Emit([c EXCEPT !.jvbMediaTransferActive = FALSE], "suspendJvb")

ResumeMediaTransferForJvbConnection(c) ==
    Emit([c EXCEPT !.jvbMediaTransferActive = TRUE], "resumeJvb")

\* session-terminate is sent while the room exists and the remote peer is
\* still in the roster; its result callback then runs later.
SendSessionTerminate(c) ==
    /\ c.room # "null"
    /\ HasParticipant(c, c.sessions[c.p2pJingleSession].remote)

StopP2PSession(c, requestRestart) ==
    IF c.p2pJingleSession = Null THEN c
    ELSE LET wasP2PEstablished == IsP2PActive(c)
             swap == wasP2PEstablished /\ c.jvbJingleSession # Null /\ ~requestRestart
             c1 == IF swap THEN ResumeMediaTransferForJvbConnection(c) ELSE c
             c2 == IF wasP2PEstablished
                   THEN Emit(RemoveRemoteTracks(c1, GetRemoteTracks(c1, c1.p2pJingleSession)),
                             "removeRemoteP2PTracks")
                   ELSE c1
             c3 == Emit(ReleaseP2PSession(
                            [c2 EXCEPT !.p2pTerminatePending = @ \/ SendSessionTerminate(c2)]),
                        "terminateP2P")
             c4 == SetP2PStatus(c3, FALSE)
         IN  IF swap
             THEN Emit(AddRemoteTracks(c4, GetRemoteTracks(c4, c4.jvbJingleSession)),
                       "addRemoteJVBTracks")
             ELSE c4

AutoP2PDisabled(c) ==
    \/ ~IsP2PEnabled(c)
    \/ IsP2PTestModeEnabled(c)
    \/ c.options.firefoxNoP2P
    \/ IsE2EEEnabled(c)

\* Mutation of ScheduleDeferredStartP2P: a timer is armed whether or not
\* one is armed already.
ScheduleDeferredStartP2PAlways(c, jid) ==
    Emit([c EXCEPT !.deferredStartP2PTask = jid,
                   !.deferredTimers = Append(@, [jid |-> jid,
                                                 ms |-> BackToP2PDelay(c.options) * 1000])],
         "deferStartP2P")

\* The userLeftEvent branch of _maybeStartOrStopP2P: the start is deferred by
\* backToP2PDelay unless a deferred start is scheduled already.
ScheduleDeferredStartP2P(c, jid) ==
    IF c.deferredStartP2PTask # NoJid THEN Emit(c, "deferredStartAlreadySet")
    ELSE Emit([c EXCEPT !.deferredStartP2PTask = jid,
                        !.deferredTimers = Append(@, [jid |-> jid,
                                                      ms |-> BackToP2PDelay(c.options) * 1000])],
              "deferStartP2P")

MaybeStartOrStopP2P(c, userLeftEvent) ==
    IF AutoP2PDisabled(c) THEN c
    ELSE LET shouldBeInP2P == ShouldBeInP2PMode(c)
             c1 == IF ~shouldBeInP2P THEN MaybeClearDeferredStartP2P(c) ELSE c
         IN  IF c1.p2pJingleSession = Null /\ shouldBeInP2P
             THEN LET peer == CHOOSE p \in GetParticipants(c1) : TRUE
                      jid == peer.id
                  IN  IF c1.options.forceInitiator THEN StartP2PSession(c1, jid)
                      ELSE IF c1.options.forceResponder THEN c1
                      ELSE IF InitiatorRule(MyUserId(c1), peer.id) # "me" THEN c1
                      ELSE IF userLeftEvent
                           THEN ScheduleDeferredStartP2P(c1, jid)
                           ELSE StartP2PSession(c1, jid)
             ELSE IF c1.p2pJingleSession # Null /\ ~shouldBeInP2P
                  THEN StopP2PSession(c1, FALSE)
                  ELSE c1

(* ------------------------------------------------------------------ *)
(* ICE failure recovery (IceFailedHandling)                            *)
(* ------------------------------------------------------------------ *)
\* IceFailedHandling.start: performs the ICE restart unless cancelled.
IceFailedHandlingStart(c) ==
    IF c.delayedIceFailed = "armed" THEN Emit(c, "iceRestart") ELSE c

\* this._delayedIceFailed && this._delayedIceFailed.cancel()
IceFailedHandlingCancel(c) ==
    IF c.delayedIceFailed = "none" THEN c
    ELSE [c EXCEPT !.delayedIceFailed = "canceled"]

\* Mutation of NextIceRestarts: the increment is lost.
NextIceRestartsUnchanged(n) == n

\* this._iceRestarts++
NextIceRestarts(n) == n + 1

\* getJitterDelay(retry, minDelay) without its random part: the delay doubles
\* with every attempt.
GetBaseDelay(retry, minDelay) == minDelay * (2 ^ retry)

\* the backoff timer that _onIceConnectionFailed sets for the session s
ScheduledRestart(c, s) ==
    [ session |-> s, attempt |-> c.iceRestarts,
      delay |-> GetBaseDelay(c.iceRestarts, 1000),
      \* auxiliary: the ICE connection of a bridge session has been restored
      \* since the failure that set the timer
      restored |-> FALSE ]

\* auxiliary: the restoration is noted on every backoff timer that is pending
NoteRestored(c, timers) ==
    IF c.auxiliaryRecorded
    THEN [ i \in DOMAIN timers |-> [timers[i] EXCEPT !.restored = TRUE] ]
    ELSE timers

RemoveAt(seq, i) == [ k \in 1..(Len(seq) - 1) |-> IF k < i THEN seq[k] ELSE seq[k + 1] ]

(* ------------------------------------------------------------------ *)
(* Handlers of JitsiConference, as functions of the conference         *)
(* ------------------------------------------------------------------ *)
OnMucJoined(c) ==
    LET c0 == [Begin(c, "onMucJoined", "none") EXCEPT !.room = "joined"]
        c1 == MaybeStartOrStopP2P(c0, FALSE)
    IN  [c1 EXCEPT !.isJvbConnectionInterrupted = FALSE]

OnMemberJoined(c, id, botType, jigasi) ==
    LET c0 == Begin(c, "onMemberJoined", "none")
    IN  IF id = Focus \/ MyUserId(c0) = id THEN c0
        ELSE LET active == GetActiveMediaSession(c0)
                 \* the remote tracks the active session has for the id already
                 remoteTracks == IF active = Null THEN {}
                                 ELSE { t \in GetRemoteTracks(c0, active) : t.owner = id }
                 c1 == Emit([c0 EXCEPT !.participants =
                                @ \cup {[id |-> id, botType |-> botType, jigasi |-> jigasi]},
                                       !.attachedTracks = @ \cup remoteTracks],
                            "USER_JOINED")
             IN  IF IsJoined(c1) THEN MaybeStartOrStopP2P(c1, FALSE) ELSE c1

\* session.removeRemoteStreamsOnLeave(id) for every media session the
\* conference has: the sessions drop the remote tracks of the endpoint
RemoveRemoteStreamsOnLeave(c, id) ==
    [c EXCEPT !.sessions =
        [s \in DOMAIN @ |-> IF s \in { c.jvbJingleSession, c.p2pJingleSession }
                             THEN [@[s] EXCEPT !.remoteTracks = @ \ { id }]
                             ELSE @[s]]]

\* the loop of onMemberLeft over tracksToBeRemoved: TRACK_REMOVED for the
\* remote track that each session of the sequence has for the id
RECURSIVE EmitTracksRemoved(_, _, _)
EmitTracksRemoved(c, mediaSessions, id) ==
    IF mediaSessions = << >> THEN c
    ELSE LET s == Head(mediaSessions)
             remoteTracks == { t \in GetRemoteTracks(c, s) : t.owner = id }
         IN  EmitTracksRemoved(IF remoteTracks = {} THEN c
                               ELSE EmitFor(c, "TRACK_REMOVED", remoteTracks),
                               Tail(mediaSessions), id)

\* getMediaSessions(): the bridge session, then the P2P session
GetMediaSessions(c) ==
    (IF c.jvbJingleSession # Null THEN << c.jvbJingleSession >> ELSE << >>)
        \o (IF c.p2pJingleSession # Null THEN << c.p2pJingleSession >> ELSE << >>)

OnMemberLeft(c, id) ==
    LET c0 == Begin(c, "onMemberLeft", "none")
    IN  IF id = Focus \/ MyUserId(c0) = id THEN c0
        ELSE LET ct == EmitTracksRemoved(c0, GetMediaSessions(c0), id)
                 cr == RemoveRemoteStreamsOnLeave(ct, id)
                 c1 == IF HasParticipant(cr, id)
                       THEN Emit([cr EXCEPT !.participants = { p \in @ : p.id # id },
                                            !.attachedTracks = { t \in @ : t.owner # id }],
                                 "USER_LEFT")
                       ELSE cr
             IN  IF c1.room # "null" THEN MaybeStartOrStopP2P(c1, TRUE) ELSE c1

OnMemberBotTypeChanged(c, id, botType) ==
    LET c0 == Begin(c, "onMemberBotTypeChanged", "none")
        c1 == Emit([c0 EXCEPT !.participants =
                      { IF p.id = id THEN [p EXCEPT !.botType = botType] ELSE p : p \in @ }],
                   "BOT_TYPE_CHANGED")
    IN  IF botType = "none" THEN MaybeStartOrStopP2P(c1, FALSE) ELSE c1

UpdateProperties(c, visitors) ==
    LET c0 == Begin(c, "updateProperties", "none")
        c1 == [c0 EXCEPT !.hasVisitors = visitors]
    IN  IF c.hasVisitors # visitors THEN MaybeStartOrStopP2P(c1, TRUE) ELSE c1

SetTranscribingEnabled(c, enabled) ==
    LET c0 == Begin(c, "setTranscribingEnabled", "none")
    IN  IF c.transcribingEnabled # enabled
        THEN MaybeStartOrStopP2P([c0 EXCEPT !.transcribingEnabled = enabled], TRUE)
        ELSE c0

\* The rejected session is terminated and dropped by the Jingle layer: it is
\* not kept among the sessions of the model.
RejectIncomingCall(c, reason) == Emit(Emit(c, "rejectIncomingCall"), reason)

AcceptP2PIncomingCall(c, call) ==
    LET c1 == NewSession(c, TRUE, FALSE, call.remote)
        sid == Len(c1.sessions)
    IN  Emit([c1 EXCEPT !.isP2PConnectionInterrupted = FALSE, !.p2pJingleSession = sid,
                        !.arg = "p2p"],
             "acceptP2P")

\* Mutation of OnIncomingCallP2P: _shouldBeInP2PMode() is not consulted.
OnIncomingCallP2PAnyMode(c, call) ==
    IF ~call.unified THEN RejectIncomingCall(c, "decline")
    ELSE IF (~IsP2PEnabled(c) /\ ~IsP2PTestModeEnabled(c)) \/ c.options.firefoxNoP2P
         THEN RejectIncomingCall(c, "decline")
    ELSE IF c.p2pJingleSession # Null THEN RejectIncomingCall(c, "busy")
    ELSE AcceptP2PIncomingCall(c, call)

OnIncomingCallP2P(c, call) ==
    IF ~call.unified THEN RejectIncomingCall(c, "decline")
    ELSE IF (~IsP2PEnabled(c) /\ ~IsP2PTestModeEnabled(c)) \/ c.options.firefoxNoP2P
         THEN RejectIncomingCall(c, "decline")
    ELSE IF c.p2pJingleSession # Null THEN RejectIncomingCall(c, "busy")
    ELSE IF ~ShouldBeInP2PMode(c) THEN RejectIncomingCall(c, "decline")
    ELSE AcceptP2PIncomingCall(c, call)

AcceptJvbIncomingCall(c, call) ==
    LET c1 == NewSession(c, FALSE, FALSE, call.remote)
        sid == Len(c1.sessions)
    IN  Emit([c1 EXCEPT !.jvbJingleSession = sid, !.jvbMediaTransferActive = TRUE,
                        !.jvbAcceptPending = TRUE, !.arg = "jvb"],
             "acceptJvb")

\* call.isP2P, call.remote: the session the Jingle layer created for the offer;
\* call.fromFocus: isFocus(remoteJid); call.unified: the offer's SDP mode.
OnIncomingCall(c, call) ==
    LET c0 == Begin(c, "onIncomingCall", "none")
    IN  IF call.isP2P THEN OnIncomingCallP2P(c0, call)
        ELSE IF ~call.fromFocus THEN RejectIncomingCall(c0, "security-error")
        ELSE AcceptJvbIncomingCall(c0, call)

\* the success / error callback of jingleSession.acceptOffer of the bridge session
OnJvbAcceptOfferResult(c, ok) ==
    LET c0 == Begin([c EXCEPT !.jvbAcceptPending = FALSE], "jvbAcceptOfferResult", "none")
    IN  IF ~ok THEN Emit(Emit(c0, "error"), "CONFERENCE_FAILED:OFFER_ANSWER_FAILED")
        ELSE IF IsP2PActive(c0) /\ c0.jvbJingleSession # Null
             THEN SuspendMediaTransferForJvbConnection(c0)
             ELSE c0

\* Mutation of OnP2POfferAnswerResult: the failure is only logged.
OnP2POfferAnswerResultLogged(c, s, ok) ==
    LET c0 == Begin([c EXCEPT !.sessions[s].offer = IF ok THEN "done" ELSE "failed"],
                    "p2pOfferAnswerResult", SessionRole(c, s))
    IN  IF ok THEN c0 ELSE Emit(c0, "error")

\* The success / error callback of acceptOffer of _acceptP2PIncomingCall, and
\* the then / catch of invite() of _startP2PSession, for the P2P session s.
OnP2POfferAnswerResult(c, s, ok) ==
    LET c0 == Begin([c EXCEPT !.sessions[s].offer = IF ok THEN "done" ELSE "failed"],
                    "p2pOfferAnswerResult", SessionRole(c, s))
    IN  IF ok THEN c0
        ELSE IF c0.p2pJingleSession # Null
             THEN Emit(Emit(c0, "error"), "CONFERENCE_FAILED:OFFER_ANSWER_FAILED")
             ELSE Emit(c0, "error")

\* onCallAccepted(session, answer): session-accept has been received
OnCallAccepted(c, s) ==
    LET c0 == Begin(c, "onCallAccepted", SessionRole(c, s))
    IN  IF c0.p2pJingleSession = s
        THEN Emit([c0 EXCEPT !.sessions[s].answer = "pending"], "setAnswer")
        ELSE c0

\* the then / catch of p2pJingleSession.setAnswer(answer) of onCallAccepted
OnSetAnswerResult(c, s, ok) ==
    LET c0 == Begin([c EXCEPT !.sessions[s].answer = IF ok THEN "done" ELSE "failed"],
                    "setAnswerResult", SessionRole(c, s))
    IN  IF ok THEN c0
        ELSE IF c0.p2pJingleSession # Null
             THEN Emit(Emit(c0, "error"), "CONFERENCE_FAILED:OFFER_ANSWER_FAILED")
             ELSE Emit(c0, "error")

OnIceConnectionEstablished(c, s) ==
    LET c0 == Begin(c, "onIceConnectionEstablished", SessionRole(c, s))
        done == ~SessionIsP2P(c0, s) \/ c0.p2pJingleSession # s
        c1 == IF SessionIsP2P(c0, s) = IsP2PActive(c0)
              THEN Emit(c0, "CONNECTION_ESTABLISHED") ELSE c0
    IN  IF done THEN c1
        ELSE LET c2 == SetP2PStatus(c1, TRUE)
                 c3 == IF c2.jvbJingleSession # Null
                       THEN Emit(RemoveRemoteTracks(c2, GetRemoteTracks(c2, c2.jvbJingleSession)),
                                 "removeRemoteJVBTracks")
                       ELSE c2
                 c4 == Emit(AddRemoteTracks(c3, GetRemoteTracks(c3, c3.p2pJingleSession)),
                            "addRemoteP2PTracks")
             IN  IF c4.jvbJingleSession # Null
                 THEN SuspendMediaTransferForJvbConnection(c4) ELSE c4

\* Mutation of OnIceConnectionFailed: session.isP2P is not looked at, a P2P
\* session is handled like a bridge session.
OnIceConnectionFailedLikeBridge(c, s) ==
    LET c0 == Begin(c, "onIceConnectionFailed", SessionRole(c, s))
    IN  IF c0.iceRestarts < MAX_CONNECTION_RETRIES
        THEN Emit([c0 EXCEPT !.delayedIceFailed = "armed",
                             !.iceTimers = Append(@, ScheduledRestart(c0, s))],
                  "scheduleIceRestart")
        ELSE Emit(c0, "CONFERENCE_FAILED:ICE_FAILED")

OnIceConnectionFailed(c, s) ==
    LET c0 == Begin(c, "onIceConnectionFailed", SessionRole(c, s))
    IN  IF SessionIsP2P(c0, s) THEN StopP2PSession(c0, FALSE)
        ELSE IF c0.jvbJingleSession = s /\ c0.iceRestarts < MAX_CONNECTION_RETRIES
             THEN Emit([c0 EXCEPT !.delayedIceFailed = "armed",
                                  !.iceTimers = Append(@, ScheduledRestart(c0, s))],
                       "scheduleIceRestart")
        ELSE IF c0.jvbJingleSession = s
             THEN Emit(c0, "CONFERENCE_FAILED:ICE_FAILED")
             ELSE c0

\* the callback of the backoff timer set by _onIceConnectionFailed
OnIceRestartTimer(c, i) ==
    LET c0 == Begin([c EXCEPT !.iceTimers = RemoveAt(@, i)], "iceRestartTimer",
                    SessionRole(c, c.iceTimers[i].session))
        c1 == IceFailedHandlingStart(c0)
        c2 == IF c.iceTimers[i].restored THEN Emit(c1, "restoredBeforeRestart") ELSE c1
    IN  [c2 EXCEPT !.iceRestarts = NextIceRestarts(@)]

OnIceConnectionInterrupted(c, s) ==
    LET c0 == Begin(c, "onIceConnectionInterrupted", SessionRole(c, s))
        c1 == IF SessionIsP2P(c0, s)
              THEN [c0 EXCEPT !.isP2PConnectionInterrupted = TRUE]
              ELSE [c0 EXCEPT !.isJvbConnectionInterrupted = TRUE]
    IN  IF SessionIsP2P(c1, s) = IsP2PActive(c1)
        THEN Emit(c1, "CONNECTION_INTERRUPTED") ELSE c1

OnIceConnectionRestored(c, s) ==
    LET c0 == Begin(c, "onIceConnectionRestored", SessionRole(c, s))
        c1 == IF SessionIsP2P(c0, s)
              THEN [c0 EXCEPT !.isP2PConnectionInterrupted = FALSE]
              ELSE IceFailedHandlingCancel([c0 EXCEPT !.isJvbConnectionInterrupted = FALSE,
                                                      !.iceTimers = NoteRestored(c0, @)])
    IN  IF SessionIsP2P(c1, s) = IsP2PActive(c1)
        THEN Emit(c1, "CONNECTION_RESTORED") ELSE c1

\* ChatRoom.removeFromPresence(key)
RemoveFromPresence(nodes, key) == SelectSeq(nodes, LAMBDA node : key # node.tagName)

\* Mutation of AddOrReplaceInPresence: the node is replaced whether or not the
\* value is there already.
AddOrReplaceInPresenceAlways(nodes, key, values) ==
    [ nodes |-> Append(RemoveFromPresence(nodes, key), [tagName |-> key, value |-> values]),
      changed |-> TRUE ]

\* ChatRoom.addOrReplaceInPresence(key, values): the new nodes, and what the
\* method returns
AddOrReplaceInPresence(nodes, key, values) ==
    LET node == [tagName |-> key, value |-> values]
        matchingNodes == SelectSeq(nodes, LAMBDA n : key = n.tagName)
    IN  IF Len(matchingNodes) = 1 /\ matchingNodes[1] = node
        THEN [ nodes |-> nodes, changed |-> FALSE ]
        ELSE [ nodes |-> Append(RemoveFromPresence(nodes, key), node), changed |-> TRUE ]

\* this._localSourceState[sourceName] of the signaling layer, with one
\* property set
SetSourceState(state, sourceName, property, value) ==
    [ n \in DOMAIN state \cup { sourceName } |->
        LET old == IF n \in DOMAIN state THEN state[n]
                   ELSE [ muted |-> "undefined", videoType |-> "undefined" ]
        IN  IF n # sourceName THEN old
            ELSE IF property = "muted" THEN [old EXCEPT !.muted = value]
            ELSE [old EXCEPT !.videoType = value] ]

\* _signalingLayer.setTrackMuteStatus / setTrackVideoType: the source state
\* is updated and put into the presence as the SourceInfo node
SetTrackProperty(pres, sourceName, property, value) ==
    LET state == SetSourceState(pres.sourceState, sourceName, property, value)
        r == AddOrReplaceInPresence(pres.nodes, "SourceInfo", state)
    IN  [ presence |-> [pres EXCEPT !.sourceState = state, !.nodes = r.nodes],
          changed |-> r.changed ]

\* the loop of _updateRoomPresence from the track i on. videoTypeChanged is
\* declared outside the loop and keeps its value for the tracks that are not
\* video tracks.
RECURSIVE PresencePass(_, _, _, _, _, _)
PresencePass(pres, muted, tracks, i, presenceChanged, videoTypeChanged) ==
    IF i > Len(tracks) THEN [ presence |-> pres, presenceChanged |-> presenceChanged ]
    ELSE LET track == tracks[i]
             m == SetTrackProperty(pres, track.name, "muted",
                                   IF track.name \in muted THEN "true" ELSE "false")
             v == IF track.type = "video"
                  THEN SetTrackProperty(m.presence, track.name, "videoType", track.videoType)
                  ELSE [ presence |-> m.presence, changed |-> videoTypeChanged ]
         IN  PresencePass(v.presence, muted, tracks, i + 1,
                          presenceChanged \/ m.changed \/ v.changed, v.changed)

\* _updateRoomPresence(jingleSession, ctx); ctx = 0: no context object. The
\* local tracks of the session's peer connection are those of the conference.
UpdateRoomPresence(c, s, ctx, tracks) ==
    LET c0 == Begin(c, "updateRoomPresence", IF s = Null THEN "none" ELSE SessionRole(c, s))
    IN  IF s = Null THEN c0
        ELSE IF ctx # 0 /\ c0.presence.ctx[ctx].skip THEN c0
        ELSE LET c1 == IF ctx # 0 THEN [c0 EXCEPT !.presence.ctx[ctx].skip = TRUE] ELSE c0
                 r == PresencePass(c1.presence, c1.mutedTracks, tracks, 1, FALSE, FALSE)
                 c2 == Emit([c1 EXCEPT !.presence = r.presence], "presencePass")
             IN  IF ~r.presenceChanged THEN c2
                 ELSE Emit(IF ctx # 0 THEN [c2 EXCEPT !.presence.ctx[ctx].sends = @ + 1]
                           ELSE c2,
                           "sendPresence")

\* track.isMuted() of a local track changes
OnTrackMuteChanged(c, name) ==
    LET c0 == Begin(c, "trackMuteChanged", "none")
    IN  [c0 EXCEPT !.mutedTracks = IF name \in @ THEN @ \ { name } ELSE @ \cup { name }]

\* RTCEvents.REMOTE_TRACK_ADDED: the peer connection of the session has a
\* new remote track, and the conference is told
OnRemoteTrackAddedEvent(c, s, owner) ==
    LET c0 == Begin(c, "onRemoteTrackAdded", SessionRole(c, s))
    IN  OnRemoteTrackAdded([c0 EXCEPT !.sessions[s].remoteTracks = @ \cup { owner }],
                           RemoteTrack(s, owner))

OnCallEnded(c, s, restart) ==
    LET c0 == Begin(c, "onCallEnded", SessionRole(c, s))
    IN  IF s = c0.jvbJingleSession THEN [c0 EXCEPT !.jvbJingleSession = Null]
        ELSE IF s = c0.p2pJingleSession THEN StopP2PSession(c0, restart)
        ELSE c0

\* the callback of the timer held in deferredStartP2PTask
\* (_startP2PSession bound to the remote jid): timer i fires; the clearTimeout
\* of _maybeClearDeferredStartP2P does nothing to a timer that has fired.
OnDeferredStartP2PTimer(c, i) ==
    LET c0 == Begin(c, "deferredStartP2PTimer", "none")
        c1 == [c0 EXCEPT !.deferredTimers = RemoveAt(@, i)]
        c2 == IF i = Len(c.deferredTimers) /\ c1.deferredStartP2PTask # NoJid
              THEN Emit([c1 EXCEPT !.deferredStartP2PTask = NoJid], "clearDeferredStartP2P")
              ELSE c1
    IN  StartP2PSession(c2, c.deferredTimers[i].jid)

\* the success callback given to p2pJingleSession.terminate by _stopP2PSession
OnP2PTerminateResult(c, success) ==
    LET c0 == Begin([c EXCEPT !.p2pTerminatePending = FALSE], "p2pTerminateResult", "none")
    IN  IF success THEN ReleaseP2PSession(c0) ELSE c0

\* Promise.allSettled(promises) for the one promise of a room without lobby:
\* pending while the promise is, fulfilled once it has resolved or rejected
PromiseAllSettled(promise) == IF promise = "pending" THEN "pending" ELSE "fulfilled"

(* ------------------------------------------------------------------ *)
(* The MUC connection plugin and the ChatRoom objects                  *)
(* ------------------------------------------------------------------ *)
\* new ChatRoom(connection, jid, ...): the fields the constructor sets.
\* presenceSyncTime is undefined until a presence has been sent: << >>.
\* preJoins are the calls of join() whose preJoin promise is pending and
\* retryTimers the armed timers of room creation retries; synced is the
\* content of the presence stanza sent last and leaveCalled tells that
\* leave() has been called.
NewChatRoom(jid, now) ==
    [ roomjid |-> GetBareJidFromJid(jid),
      myroomjid |-> jid,
      members |-> << >>,                     \* in the order of their entering
      nodes |-> << >>,
      joined |-> FALSE,
      inProgressEmitted |-> FALSE,
      presenceUpdateTime |-> now,
      presenceSyncTime |-> << >>,
      roomCreationRetries |-> 0,
      retryTimers |-> 0,
      preJoins |-> 0,
      synced |-> << >>,
      leaveCalled |-> FALSE ]

\* isRoomCreated(roomJid): roomJid in this.rooms
IsRoomCreated(c, roomJid) == roomJid \in DOMAIN c.emuc /\ c.emuc[roomJid] # Null

\* Mutation of CreateRoom: the room that is registered is replaced.
CreateRoomAnyway(c, jid) ==
    LET roomJid == GetBareJidFromJid(jid)
    IN  Emit([c EXCEPT !.chatRooms = Append(@, NewChatRoom(jid, c.now)),
                       !.emuc[roomJid] = Len(c.chatRooms) + 1],
             "EMUC_ROOM_ADDED")

\* createRoom(jid, password, options)
CreateRoom(c, jid) ==
    LET roomJid == GetBareJidFromJid(jid)
    IN  IF IsRoomCreated(c, roomJid) THEN Emit(c, "Error")
        ELSE Emit([c EXCEPT !.chatRooms = Append(@, NewChatRoom(jid, c.now)),
                            !.emuc[roomJid] = Len(c.chatRooms) + 1],
                  "EMUC_ROOM_ADDED")

\* doLeave(jid) of the plugin: delete this.rooms[jid], for the jid as given
EmucDoLeave(c, jid) ==
    Emit([c EXCEPT !.emuc = IF jid \in DOMAIN @ THEN [@ EXCEPT ![jid] = Null] ELSE @],
         "EMUC_ROOM_REMOVED")

\* the ChatRoom the plugin dispatches a stanza from the JID from to, or Null
RoomOf(c, from) ==
    LET roomJid == GetBareJidFromJid(from)
    IN  IF roomJid \in DOMAIN c.emuc THEN c.emuc[roomJid] ELSE Null

\* whether the ChatRoom of the conference is followed: it is chatRooms[1]
RoomFollowed(c) == c.chatRooms # << >>

\* Mutation of Clean: the joined flag stays.
CleanKeepsJoined(c, r) == [c EXCEPT !.chatRooms[r].inProgressEmitted = FALSE]

\* ChatRoom.clean()
Clean(c, r) ==
    [c EXCEPT !.chatRooms[r].joined = FALSE, !.chatRooms[r].inProgressEmitted = FALSE]

\* Mutation of ChatRoomLeave: the flags are reset when the unavailable
\* presence is sent, not when the leave is confirmed.
ChatRoomLeaveCleansFirst(c) ==
    IF RoomFollowed(c) /\ c.chatRooms[1].joined
    THEN Emit([Clean(c, 1) EXCEPT !.chatRooms[1].leaveCalled = TRUE,
                                  !.roomLeave = [ listener |-> TRUE, timeout |-> TRUE,
                                                  confirmation |-> "pending",
                                                  promise |-> PromiseAllSettled("pending") ]],
              "sendUnavailable")
    ELSE [c EXCEPT !.roomLeave = [ listener |-> FALSE, timeout |-> FALSE,
                                   confirmation |-> "resolved",
                                   promise |-> PromiseAllSettled("resolved") ]]

\* ChatRoom.leave(reason); this.joined is true from MUC_JOINED on. A room
\* that has not joined is unregistered and cleaned at once; one that has
\* sends the unavailable presence (ChatRoom.doLeave) and waits.
ChatRoomLeave(c) ==
    IF RoomFollowed(c)
    THEN LET c1 == [c EXCEPT !.chatRooms[1].leaveCalled = TRUE]
         IN  IF c1.chatRooms[1].joined
             THEN Emit([c1 EXCEPT !.roomLeave =
                           [ listener |-> TRUE, timeout |-> TRUE,
                             confirmation |-> "pending",
                             promise |-> PromiseAllSettled("pending") ]],
                       "sendUnavailable")
             ELSE [Clean(EmucDoLeave(c1, c1.chatRooms[1].roomjid), 1) EXCEPT !.roomLeave =
                           [ listener |-> FALSE, timeout |-> FALSE,
                             confirmation |-> "resolved",
                             promise |-> PromiseAllSettled("resolved") ]]
    ELSE IF IsJoined(c)
    THEN [c EXCEPT !.roomLeave = [ listener |-> TRUE, timeout |-> TRUE,
                                   confirmation |-> "pending",
                                   promise |-> PromiseAllSettled("pending") ]]
    ELSE [c EXCEPT !.roomLeave = [ listener |-> FALSE, timeout |-> FALSE,
                                   confirmation |-> "resolved",
                                   promise |-> PromiseAllSettled("resolved") ]]

\* onMucLeft(doReject) of ChatRoom.leave: the MUC_LEFT listener (doReject is
\* false) and the callback of the 5 s timeout (doReject is true)
OnMucLeft(c, doReject) ==
    LET cb == Begin(c, IF doReject THEN "leaveTimeout" ELSE "onMucLeft", "none")
        cc == IF RoomFollowed(cb) THEN Clean(cb, 1) ELSE cb
        c0 == IF RoomFollowed(cc) /\ doReject THEN EmucDoLeave(cc, cc.chatRooms[1].roomjid)
              ELSE cc
        confirmation == IF doReject THEN "rejected" ELSE "resolved"
    IN  [c0 EXCEPT !.roomLeave = [ listener |-> FALSE, timeout |-> FALSE,
                                   confirmation |-> confirmation,
                                   promise |-> PromiseAllSettled(confirmation) ]]

\* Mutation of Leave: the pending ICE failure handling is not cancelled.
LeaveWithoutCancel(c) ==
    LET c0 == Begin(c, "leave", "none")
        c2 == [ReleaseP2PSession(c0) EXCEPT !.jvbJingleSession = Null]
    IN  IF c2.room = "null" THEN c2 ELSE [ChatRoomLeave(c2) EXCEPT !.room = "null"]

\* leave(), up to the point where it awaits room.leave()
Leave(c) ==
    LET c0 == Begin(c, "leave", "none")
        c1 == IceFailedHandlingCancel(c0)
        c2 == [ReleaseP2PSession(c1) EXCEPT !.jvbJingleSession = Null]
    IN  IF c2.room = "null" THEN c2 ELSE [ChatRoomLeave(c2) EXCEPT !.room = "null"]

\* startP2PSession() / stopP2PSession(): the manual controls of the P2P test mode
ManualStartP2PSession(c) ==
    LET c0 == Begin(c, "startP2PSession", "none")
    IN  IF Cardinality(GetParticipants(c0)) = 1
        THEN StartP2PSession(c0, (CHOOSE p \in GetParticipants(c0) : TRUE).id)
        ELSE Emit(c0, "Error")

ManualStopP2PSession(c) == StopP2PSession(Begin(c, "stopP2PSession", "none"), FALSE)

(* ------------------------------------------------------------------ *)
(* Local tracks                                                        *)
(* ------------------------------------------------------------------ *)
\* the sessions a track operation has been handed to: none yet
NoSids == [jvb |-> Null, p2p |-> Null]

NoTrack == [name |-> "none", type |-> "none", videoType |-> "none", disposed |-> FALSE]

TrackPool ==
    { [name |-> "a1", type |-> "audio", videoType |-> "none", disposed |-> FALSE],
      [name |-> "a2", type |-> "audio", videoType |-> "none", disposed |-> FALSE],
      [name |-> "c1", type |-> "video", videoType |-> "camera", disposed |-> FALSE],
      [name |-> "d1", type |-> "video", videoType |-> "desktop", disposed |-> FALSE] }

\* Local tracks whose dispose() has completed: track.disposed is set
DisposedTracks ==
    { [name |-> "a3", type |-> "audio", videoType |-> "none", disposed |-> TRUE],
      [name |-> "c3", type |-> "video", videoType |-> "camera", disposed |-> TRUE] }

AudioTracks == { t \in TrackPool : t.type = "audio" }

Range(seq) == { seq[i] : i \in DOMAIN seq }

\* rtc.getLocalTracks(mediaType)
LocalTracksOfType(tracks, mediaType) == SelectSeq(tracks, LAMBDA t : t.type = mediaType)

\* rtc.removeLocalTrack(track): the first entry that is the track is spliced out
RemoveLocalTrack(tracks, track) ==
    IF \E i \in DOMAIN tracks : tracks[i] = track
    THEN RemoveAt(tracks, CHOOSE i \in DOMAIN tracks :
                              /\ tracks[i] = track
                              /\ \A k \in 1..(i - 1) : tracks[k] # track)
    ELSE tracks

\* track.conference === this
BelongsToConference(tracks, track) == track \in Range(tracks)

\* What replaceTrack(oldTrack, newTrack) does before it waits: "throw",
\* "rejected" (TRACK_IS_DISPOSED), or the operation handed to _doReplaceTrack.
ReplaceTrackCall(tracks, oldTrack, newTrack) ==
    IF oldTrack # NoTrack /\ newTrack # NoTrack /\ oldTrack.videoType # newTrack.videoType
    THEN [result |-> "throw"]
    ELSE IF BelongsToConference(tracks, oldTrack) /\ oldTrack.disposed
    THEN [result |-> "rejected"]
    ELSE IF newTrack.disposed
    THEN [result |-> "rejected"]
    ELSE [result |-> "pending",
          op |-> [kind |-> "replace",
                  old |-> IF BelongsToConference(tracks, oldTrack) THEN oldTrack ELSE NoTrack,
                  new |-> newTrack, jvb |-> "none", p2p |-> "none", sids |-> NoSids]]

\* What addTrack(track) does before it waits.
AddTrackCall(tracks, options, track) ==
    LET sameType == LocalTracksOfType(tracks, track.type)
    IN  IF Len(sameType) > 0
        THEN IF track = sameType[1] THEN [result |-> "resolved"]
             ELSE IF \/ options.allowMultipleTracks
                     \/ /\ track.type = "video"
                        /\ ~\E t \in Range(sameType) : t.videoType = track.videoType
                  THEN [result |-> "pending",
                        op |-> [kind |-> "add", old |-> NoTrack, new |-> track,
                                jvb |-> "none", p2p |-> "none", sids |-> NoSids]]
                  ELSE [result |-> "rejected"]
        ELSE ReplaceTrackCall(tracks, NoTrack, track)

\* Mutation of DoReplaceTrack: a session that still has a renegotiation of an
\* earlier call waiting or running is not given the new one.
DoReplaceTrackUnlessBusy(c, ops, op) ==
    [op EXCEPT !.jvb = IF c.jvbJingleSession # Null
                          /\ \A i \in DOMAIN ops : ops[i].jvb \notin {"queued", "applying"}
                       THEN "queued" ELSE "none",
               !.p2p = IF c.p2pJingleSession # Null
                          /\ \A i \in DOMAIN ops : ops[i].p2p \notin {"queued", "applying"}
                       THEN "queued" ELSE "none",
               !.sids = IF c.auxiliaryRecorded
                        THEN [jvb |-> c.jvbJingleSession, p2p |-> c.p2pJingleSession]
                        ELSE NoSids]

\* _doReplaceTrack(oldTrack, newTrack), and the addTracks calls of addTrack:
\* the operation is handed to every session the conference has, whatever the
\* operations ops of earlier calls are doing. A part is "none" when there is
\* no such session and "queued" once the session has been given the operation.
DoReplaceTrack(c, ops, op) ==
    [op EXCEPT !.jvb = IF c.jvbJingleSession # Null THEN "queued" ELSE "none",
               !.p2p = IF c.p2pJingleSession # Null THEN "queued" ELSE "none",
               !.sids = IF c.auxiliaryRecorded
                        THEN [jvb |-> c.jvbJingleSession, p2p |-> c.p2pJingleSession]
                        ELSE NoSids]

SessionKinds == { "jvb", "p2p" }

\* The modification queue of a media session: the renegotiation of the
\* operation ops[i] starts on the session k when it is the oldest one the
\* session has been given and has not carried out, and none is running.
CanStartRenegotiation(ops, i, k) ==
    /\ ops[i][k] = "queued"
    /\ \A j \in 1..(i - 1) : ops[j][k] \notin {"queued", "applying"}

\* JingleSessionPC.replaceTrack / addTracks has renegotiated: the session s
\* carries the new track in place of the old one. A session the conference
\* has released carries nothing any more.
SessionReplaceTrack(c, s, op) ==
    IF s = Null \/ s \notin { c.jvbJingleSession, c.p2pJingleSession } THEN c
    ELSE [c EXCEPT !.sessions[s].tracks = (@ \ {op.old.name}) \cup ({op.new.name} \ {"none"})]

\* Promise.all of the sessions' promises has settled
SessionsSettled(op) == \A k \in SessionKinds : op[k] \in {"none", "done", "failed"}

\* The then-handlers of replaceTrack / addTrack: onLocalTrackRemoved(oldTrack)
\* and _setupNewTrack(newTrack).
SettleTrackOp(tracks, op) ==
    LET removed == IF op.old # NoTrack THEN RemoveLocalTrack(tracks, op.old) ELSE tracks
    IN  IF op.new # NoTrack THEN Append(removed, op.new) ELSE removed

(* ------------------------------------------------------------------ *)
(* Initial state                                                       *)
(* ------------------------------------------------------------------ *)
InitHist ==
    [ restartsAttempted |-> 0,    \* backoff timers that have fired
      restartsPerformed |-> 0,    \* ICE restarts carried out
      afterLeave |-> {} ]         \* timers that have fired after leave()

Endpoints == { "A", "B" }

Other(e) == IF e = "A" THEN "B" ELSE "A"

\* outside the election specification its two endpoints do not exist
ElIdle == [ e \in Endpoints |-> Null ]

Init ==
    /\ conf \in { InitConf(o, Self) : o \in Configs }
    /\ localTracks = << >>
    /\ pendingOps = << >>
    /\ hist = InitHist
    /\ el = ElIdle

\* what the step from c to c2 adds to the history
NextHist(h, c, c2) ==
    [ restartsAttempted |->
          IF c2.op = "iceRestartTimer" THEN h.restartsAttempted + 1
          ELSE h.restartsAttempted,
      restartsPerformed |->
          IF "iceRestart" \in c2.fx THEN h.restartsPerformed + 1 ELSE h.restartsPerformed,
      afterLeave |->
          IF c.room = "null" /\ c2.op \in { "iceRestartTimer", "deferredStartP2PTimer" }
          THEN h.afterLeave \cup { c2.op } ELSE h.afterLeave ]

\* A session the conference has no reference to any more carries no track of
\* the conference.
DropReleasedTracks(c) ==
    [c EXCEPT !.sessions =
        [s \in DOMAIN @ |-> IF s \in { c.jvbJingleSession, c.p2pJingleSession } THEN @[s]
                             ELSE [@[s] EXCEPT !.tracks = {}]]]

\* the calls a client makes, which it may make one right after the other
ClientCalls == { "leave", "startP2PSession", "stopP2PSession" }

\* _doReplaceTrack(...).then(...): once the sessions' promises of a track
\* operation have settled, and at once when there is no session, its
\* then-handler is a queued microtask, which runs before the handler of any
\* later event does.
MicrotasksDrained ==
    \A i \in DOMAIN pendingOps :
        \E k \in { "jvb", "p2p" } : pendingOps[i][k] \in { "queued", "applying" }

Commit(c2) ==
    /\ Len(c2.sessions) <= MaxSessions
    /\ c2.op \in ClientCalls \/ MicrotasksDrained
    /\ conf' = DropReleasedTracks(c2)
    /\ hist' = NextHist(hist, conf, c2)

Sessions == 1..Len(conf.sessions)

\* A P2P offer comes from an endpoint that is in the room.
P2PCalls ==
    { [isP2P |-> TRUE, remote |-> p.id, fromFocus |-> FALSE, unified |-> u] :
          p \in conf.participants, u \in BOOLEAN }

\* A bridge offer that comes from the focus.
JvbCalls ==
    { [isP2P |-> FALSE, remote |-> Focus, fromFocus |-> TRUE, unified |-> TRUE] }

\* A bridge offer that comes from someone who is not the focus.
ForeignJvbCalls ==
    { [isP2P |-> FALSE, remote |-> r, fromFocus |-> FALSE, unified |-> TRUE] :
          r \in RemoteIds }

(* ------------------------------------------------------------------ *)
(* Handlers of ChatRoom, with the listeners of the conference          *)
(* ------------------------------------------------------------------ *)
\* eventEmitter.emit(...) of the ChatRoom reaching a listener of the
\* conference: h is what the listener makes of c; the handler that is
\* running goes on with it, and what the listener did adds to what it did.
Listener(c, h) ==
    [h EXCEPT !.op = c.op, !.arg = c.arg, !.fx = c.fx \cup @,
              !.emitted = c.emitted \o @]

\* whether the conference listens to the room r: its listeners are on the
\* ChatRoom it was constructed with
ListenedTo(r) == r = 1

\* sendPresence(fromJoin): nothing is sent before the room has joined unless
\* it is the presence that joins; the connection is taken to be connected.
SendPresence(c, r, fromJoin) ==
    IF ~c.chatRooms[r].joined /\ ~fromJoin THEN c
    ELSE Emit([c EXCEPT !.chatRooms[r].presenceSyncTime = << c.now >>,
                        !.chatRooms[r].synced = c.chatRooms[r].nodes],
              IF fromJoin THEN "sendJoinPresence" ELSE "sendPresence")

\* this.presenceUpdateTime > this.presenceSyncTime; a comparison with
\* undefined is false
PresenceModifiedSinceSync(room) ==
    room.presenceSyncTime # << >> /\ room.presenceUpdateTime > room.presenceSyncTime[1]

\* join(password, replaceParticipant): the conference request is sent, the
\* presence that joins follows when preJoin resolves
Join(c, r) == Emit([c EXCEPT !.chatRooms[r].preJoins = @ + 1], "sendConferenceRequest")

\* the callback of preJoin.then in join()
OnPreJoinResolved(c, r) ==
    SendPresence([Begin(c, "preJoinResolved", "none") EXCEPT !.chatRooms[r].preJoins = @ - 1],
                 r, TRUE)

\* the presence errors that onPresenceError tells apart: not-authorized,
\* not-allowed with the text 'Room creation is restricted' or with another
\* text, service-unavailable, and the rest
PresenceErrors ==
    { "not-authorized", "restricted", "not-allowed", "service-unavailable", "other" }

\* Mutation of OnPresenceError: the retries are not counted.
OnPresenceErrorUncounted(c, r, error, anonymous) ==
    LET c0 == Begin(c, "chatRoomOnPresenceError", IF anonymous THEN "anonymous" ELSE error)
    IN  IF error = "restricted" /\ ~anonymous
        THEN Emit([c0 EXCEPT !.chatRooms[r].retryTimers = @ + 1], "setTimeout")
        ELSE Emit(c0, "ROOM_CONNECT_ERROR")

\* ChatRoom.onPresenceError(pres, from); anonymous tells that the presence
\* was addressed to the anonymous domain
OnPresenceError(c, r, error, anonymous) ==
    LET c0 == Begin(c, "chatRoomOnPresenceError", IF anonymous THEN "anonymous" ELSE error)
    IN  IF error = "not-authorized" THEN Emit(c0, "PASSWORD_REQUIRED")
        ELSE IF error \in { "restricted", "not-allowed" }
        THEN IF anonymous THEN Emit(c0, "ROOM_JOIN_ERROR")
             ELSE IF error = "restricted"
             THEN LET c1 == [c0 EXCEPT !.chatRooms[r].roomCreationRetries = @ + 1]
                  IN  IF c1.chatRooms[r].roomCreationRetries <= 3
                      THEN Emit([c1 EXCEPT !.chatRooms[r].retryTimers = @ + 1],
                                "setTimeout")
                      ELSE Emit(c1, "ROOM_CONNECT_NOT_ALLOWED_ERROR")
             ELSE Emit(c0, "ROOM_CONNECT_NOT_ALLOWED_ERROR")
        ELSE IF error = "service-unavailable" THEN Emit(c0, "ROOM_MAX_USERS_ERROR")
        ELSE Emit(c0, "ROOM_CONNECT_ERROR")

\* the callback of the timer of a room creation retry:
\* this.join(this.password, this.replaceParticipant)
OnRoomCreationRetryTimer(c, r) ==
    Join([Begin(c, "roomCreationRetryTimer", "none") EXCEPT !.chatRooms[r].retryTimers = @ - 1],
         r)

\* ChatRoom.onPresence(pres) for a presence of the occupant from, which is
\* the focus or not
ChatRoomOnPresence(c, r, from, isFocus) ==
    LET c0 == Begin(c, "chatRoomOnPresence",
                    IF from = c.chatRooms[r].myroomjid THEN "self" ELSE "occupant")
        room == c0.chatRooms[r]
        c1 == IF ~room.joined /\ ~room.inProgressEmitted
              THEN Emit([c0 EXCEPT !.chatRooms[r].inProgressEmitted = TRUE],
                        "MUC_JOIN_IN_PROGRESS")
              ELSE c0
    IN  IF from = room.myroomjid
        THEN IF ~room.joined
             THEN LET c2 == [c1 EXCEPT !.chatRooms[r].joined = TRUE]
                      c3 == IF PresenceModifiedSinceSync(room)
                            THEN SendPresence(c2, r, FALSE) ELSE c2
                      c4 == Emit(c3, "MUC_JOINED")
                  IN  IF ListenedTo(r) THEN Listener(c4, OnMucJoined(c4)) ELSE c4
             ELSE c1
        ELSE IF \A i \in DOMAIN room.members : room.members[i].jid # from
        THEN LET c2 == [c1 EXCEPT !.chatRooms[r].members =
                                      Append(@, [jid |-> from, isFocus |-> isFocus])]
             IN  IF isFocus THEN c2
                 ELSE LET c3 == Emit(c2, "MUC_MEMBER_JOINED")
                      IN  IF ListenedTo(r)
                          THEN Listener(c3, OnMemberJoined(c3, GetResourceFromJid(from),
                                                           "none", FALSE))
                          ELSE c3
        ELSE c1

\* the members without the one of the JID
WithoutMember(members, jid) == SelectSeq(members, LAMBDA m : m.jid # jid)

\* Mutation of RemoveMembers: MUC_MEMBER_LEFT is emitted for the focus too.
RECURSIVE RemoveMembersWithFocus(_, _, _)
RemoveMembersWithFocus(c, r, membersKeys) ==
    IF membersKeys = << >> THEN c
    ELSE LET member == Head(membersKeys)
             c1 == [c EXCEPT !.chatRooms[r].members = WithoutMember(@, member.jid)]
             c2 == EmitFor(c1, "MUC_MEMBER_LEFT", { member.jid })
         IN  RemoveMembersWithFocus(c2, r, Tail(membersKeys))

\* the loop of onPresenceUnavailable over membersKeys: every member is
\* deleted and MUC_MEMBER_LEFT is emitted for those that are not the focus
RECURSIVE RemoveMembers(_, _, _)
RemoveMembers(c, r, membersKeys) ==
    IF membersKeys = << >> THEN c
    ELSE LET member == Head(membersKeys)
             c1 == [c EXCEPT !.chatRooms[r].members = WithoutMember(@, member.jid)]
             c2 == IF member.isFocus THEN c1
                   ELSE LET c3 == EmitFor(c1, "MUC_MEMBER_LEFT", { member.jid })
                        IN  IF ListenedTo(r)
                            THEN Listener(c3, OnMemberLeft(c3,
                                                  GetResourceFromJid(member.jid)))
                            ELSE c3
         IN  RemoveMembers(c2, r, Tail(membersKeys))

\* leave() of the conference, after room.leave() has settled: the catch
\* block removes the participants when the promise has rejected
RECURSIVE RemoveParticipants(_, _)
RemoveParticipants(c, ids) ==
    IF ids = {} THEN c
    ELSE LET id == CHOOSE i \in ids : TRUE
         IN  RemoveParticipants(Listener(c, OnMemberLeft(c, id)), ids \ { id })

LeaveSettled(c) ==
    IF c.roomLeave.promise = "rejected"
    THEN RemoveParticipants(c, { p.id : p \in GetParticipants(c) })
    ELSE c

\* the MUC_LEFT listener that ChatRoom.leave installed, and the leave() of
\* the conference going on when the promise has settled
OnMucLeftEmitted(c, r) ==
    IF ListenedTo(r) /\ c.roomLeave.listener
    THEN LET h == Listener(c, OnMucLeft(c, FALSE)) IN LeaveSettled(h)
    ELSE c

\* onMemberKicked(isSelfPresence, ...) for the own endpoint: the conference
\* leaves
OnSelfKicked(c) == Listener(c, Leave(c))

\* what an unavailable presence is, for the record of the handler: of the
\* own occupant (status 110) or of another, and ignored, of a room that is
\* destroyed, a kick (status 307), or none of these
UnavailableKind(isSelfPresence, isKick, isDestroy, isIgnore) ==
    IF isSelfPresence
    THEN IF isIgnore THEN "selfIgnored" ELSE IF isDestroy THEN "selfDestroyed"
         ELSE IF isKick THEN "selfKicked" ELSE "self"
    ELSE IF isIgnore THEN "occupantIgnored" ELSE IF isDestroy THEN "occupantDestroyed"
         ELSE IF isKick THEN "occupantKicked" ELSE "occupant"

\* ChatRoom.onPresenceUnavailable(pres, from)
ChatRoomOnPresenceUnavailable(c, r, from, isSelfPresence, isKick, isDestroy, isIgnore) ==
    LET c0 == Begin(c, "chatRoomOnPresenceUnavailable",
                    UnavailableKind(isSelfPresence, isKick, isDestroy, isIgnore))
        room == c0.chatRooms[r]
    IN  IF isIgnore THEN c0
        ELSE IF isDestroy THEN EmucDoLeave(Emit(c0, "MUC_DESTROYED"), room.roomjid)
        ELSE LET c1 == IF isKick THEN Emit(c0, "KICKED") ELSE c0
                 c2 == IF isKick /\ isSelfPresence /\ ListenedTo(r) THEN OnSelfKicked(c1)
                       ELSE c1
             IN  IF isSelfPresence
                 THEN LET c3 == RemoveMembers(c2, r, room.members)
                          c4 == EmucDoLeave(c3, room.roomjid)
                      IN  IF ~isKick THEN OnMucLeftEmitted(Emit(c4, "MUC_LEFT"), r) ELSE c4
                 ELSE LET c3 == EmitFor([c2 EXCEPT !.chatRooms[r].members =
                                                       WithoutMember(@, from)],
                                        "MUC_MEMBER_LEFT", { from })
                          c4 == IF ListenedTo(r)
                                THEN Listener(c3, OnMemberLeft(c3, GetResourceFromJid(from)))
                                ELSE c3
                      IN  IF \E i \in DOMAIN room.members :
                                 room.members[i].jid = from /\ room.members[i].isFocus
                          THEN Emit(c4, "FOCUS_LEFT") ELSE c4

(* ------------------------------------------------------------------ *)
(* Actions: one per handler                                            *)
(* ------------------------------------------------------------------ *)
MucJoinedStep ==
    /\ conf.room = "created"
    /\ Commit(OnMucJoined(conf))
    /\ UNCHANGED << localTracks, pendingOps, el >>

\* MUC_MEMBER_JOINED of an ordinary endpoint
MemberJoinedStep ==
    /\ conf.room # "null"
    /\ \E id \in RemoteIds :
          /\ ~HasParticipant(conf, id)
          /\ Commit(OnMemberJoined(conf, id, "none", FALSE))
    /\ UNCHANGED << localTracks, pendingOps, el >>

\* MUC_MEMBER_JOINED of the focus or of the own id
FocusJoinedStep ==
    /\ conf.room # "null"
    /\ \E id \in {Focus, Self} : Commit(OnMemberJoined(conf, id, "none", FALSE))
    /\ UNCHANGED << localTracks, pendingOps, el >>

\* MUC_MEMBER_JOINED of a poltergeist
PoltergeistJoinedStep ==
    /\ conf.room # "null"
    /\ \E id \in RemoteIds :
          /\ ~HasParticipant(conf, id)
          /\ Commit(OnMemberJoined(conf, id, "poltergeist", FALSE))
    /\ UNCHANGED << localTracks, pendingOps, el >>

\* MUC_MEMBER_JOINED of a participant with the jigasi feature
JigasiJoinedStep ==
    /\ conf.room # "null"
    /\ \E id \in RemoteIds :
          /\ ~HasParticipant(conf, id)
          /\ Commit(OnMemberJoined(conf, id, "none", TRUE))
    /\ UNCHANGED << localTracks, pendingOps, el >>

MemberLeftStep ==
    /\ \E id \in RemoteIds :
          /\ HasParticipant(conf, id)
          /\ Commit(OnMemberLeft(conf, id))
    /\ UNCHANGED << localTracks, pendingOps, el >>

\* MUC_MEMBER_LEFT of the focus
FocusLeftStep ==
    /\ Commit(OnMemberLeft(conf, Focus))
    /\ UNCHANGED << localTracks, pendingOps, el >>

MemberBotTypeChangedStep ==
    /\ conf.room # "null"
    /\ \E p \in conf.participants : \E botType \in { "none", "poltergeist" } :
          /\ p.botType # botType
          /\ Commit(OnMemberBotTypeChanged(conf, p.id, botType))
    /\ UNCHANGED << localTracks, pendingOps, el >>

PropertiesChangedStep ==
    /\ conf.room # "null"
    /\ \E visitors \in { "true", "false" } : Commit(UpdateProperties(conf, visitors))
    /\ UNCHANGED << localTracks, pendingOps, el >>

TranscribingChangedStep ==
    /\ conf.room # "null"
    /\ \E enabled \in { "true", "false" } : Commit(SetTranscribingEnabled(conf, enabled))
    /\ UNCHANGED << localTracks, pendingOps, el >>

\* CALL_INCOMING with a P2P offer
IncomingP2PCallStep ==
    /\ conf.room # "null"
    /\ \E call \in P2PCalls : Commit(OnIncomingCall(conf, call))
    /\ UNCHANGED << localTracks, pendingOps, el >>

\* CALL_INCOMING with a bridge offer
IncomingJvbCallStep ==
    /\ conf.room # "null"
    /\ \E call \in JvbCalls : Commit(OnIncomingCall(conf, call))
    /\ UNCHANGED << localTracks, pendingOps, el >>

\* CALL_INCOMING with a bridge offer that is not from the focus
ForeignJvbCallStep ==
    /\ conf.room # "null"
    /\ \E call \in ForeignJvbCalls : Commit(OnIncomingCall(conf, call))
    /\ UNCHANGED << localTracks, pendingOps, el >>

JvbAcceptOfferResultStep ==
    /\ conf.jvbAcceptPending
    /\ \E ok \in BOOLEAN : Commit(OnJvbAcceptOfferResult(conf, ok))
    /\ UNCHANGED << localTracks, pendingOps, el >>

\* invite() or acceptOffer() of a P2P session settles
P2POfferAnswerResultStep ==
    /\ \E s \in Sessions, ok \in BOOLEAN :
          /\ conf.sessions[s].offer = "pending"
          /\ Commit(OnP2POfferAnswerResult(conf, s, ok))
    /\ UNCHANGED << localTracks, pendingOps, el >>

\* CALL_ACCEPTED: the answer to the offer of a P2P session this endpoint has
\* started arrives, possibly after the conference has let go of the session
CallAcceptedStep ==
    /\ conf.room # "null"
    /\ \E s \in Sessions :
          /\ SessionIsP2P(conf, s)
          /\ conf.sessions[s].answer = "none"
          /\ s = conf.p2pJingleSession => conf.sessions[s].isInitiator
          /\ Commit(OnCallAccepted(conf, s))
    /\ UNCHANGED << localTracks, pendingOps, el >>

\* setAnswer() of a P2P session settles
SetAnswerResultStep ==
    /\ \E s \in Sessions, ok \in BOOLEAN :
          /\ conf.sessions[s].answer = "pending"
          /\ Commit(OnSetAnswerResult(conf, s, ok))
    /\ UNCHANGED << localTracks, pendingOps, el >>

IceConnectionEstablishedStep ==
    /\ conf.room # "null"
    /\ \E s \in Sessions : Commit(OnIceConnectionEstablished(conf, s))
    /\ UNCHANGED << localTracks, pendingOps, el >>

\* CONNECTION_ICE_FAILED of a P2P session
P2PIceConnectionFailedStep ==
    /\ \E s \in Sessions :
          /\ SessionIsP2P(conf, s)
          /\ Commit(OnIceConnectionFailed(conf, s))
    /\ UNCHANGED << localTracks, pendingOps, el >>

\* CONNECTION_ICE_FAILED of a bridge session
JvbIceConnectionFailedStep ==
    /\ \E s \in Sessions :
          /\ ~SessionIsP2P(conf, s)
          /\ hist.restartsAttempted + Len(conf.iceTimers) < MaxIceFailures
          /\ Commit(OnIceConnectionFailed(conf, s))
    /\ UNCHANGED << localTracks, pendingOps, el >>

IceRestartTimerStep ==
    /\ \E i \in DOMAIN conf.iceTimers : Commit(OnIceRestartTimer(conf, i))
    /\ UNCHANGED << localTracks, pendingOps, el >>

IceConnectionInterruptedStep ==
    /\ conf.room # "null"
    /\ \E s \in Sessions : Commit(OnIceConnectionInterrupted(conf, s))
    /\ UNCHANGED << localTracks, pendingOps, el >>

IceConnectionRestoredStep ==
    /\ conf.room # "null"
    /\ \E s \in Sessions : Commit(OnIceConnectionRestored(conf, s))
    /\ UNCHANGED << localTracks, pendingOps, el >>

\* SESSION_ACCEPT / SOURCE_ADD / SOURCE_REMOVE of the room, and the calls of
\* addTrack and replaceTrack: _updateRoomPresence for a session or for none,
\* with one of the context objects or with none
UpdateRoomPresenceStep ==
    /\ conf.room # "null"
    /\ \E s \in Sessions \cup { Null }, ctx \in 0..MaxContexts :
          Commit(UpdateRoomPresence(conf, s, ctx, localTracks))
    /\ UNCHANGED << localTracks, pendingOps, el >>

\* a local track is muted or unmuted
TrackMuteChangedStep ==
    /\ \E i \in DOMAIN localTracks : Commit(OnTrackMuteChanged(conf, localTracks[i].name))
    /\ UNCHANGED << localTracks, pendingOps, el >>

\* REMOTE_TRACK_ADDED of a session the conference has: the remote peer of a
\* P2P session, any endpoint over the bridge
RemoteTrackAddedStep ==
    /\ conf.room # "null"
    /\ \E s \in Sessions, owner \in RemoteIds :
          /\ s \in { conf.jvbJingleSession, conf.p2pJingleSession }
          /\ SessionIsP2P(conf, s) => owner = conf.sessions[s].remote
          /\ owner \notin conf.sessions[s].remoteTracks
          /\ Commit(OnRemoteTrackAddedEvent(conf, s, owner))
    /\ UNCHANGED << localTracks, pendingOps, el >>

CallEndedStep ==
    /\ conf.room # "null"
    /\ \E s \in Sessions : \E restart \in BOOLEAN : Commit(OnCallEnded(conf, s, restart))
    /\ UNCHANGED << localTracks, pendingOps, el >>

DeferredStartP2PTimerStep ==
    /\ \E i \in DOMAIN conf.deferredTimers : Commit(OnDeferredStartP2PTimer(conf, i))
    /\ UNCHANGED << localTracks, pendingOps, el >>

P2PTerminateResultStep ==
    /\ conf.p2pTerminatePending
    /\ \E success \in BOOLEAN : Commit(OnP2PTerminateResult(conf, success))
    /\ UNCHANGED << localTracks, pendingOps, el >>

ManualStartP2PSessionStep ==
    /\ conf.room # "null"
    /\ IsP2PTestModeEnabled(conf)
    /\ Commit(ManualStartP2PSession(conf))
    /\ UNCHANGED << localTracks, pendingOps, el >>

ManualStopP2PSessionStep ==
    /\ conf.room # "null"
    /\ IsP2PTestModeEnabled(conf)
    /\ Commit(ManualStopP2PSession(conf))
    /\ UNCHANGED << localTracks, pendingOps, el >>

LeaveStep ==
    /\ conf.room # "null"
    /\ Commit(Leave(conf))
    /\ localTracks' = << >>
    /\ UNCHANGED << pendingOps, el >>

\* XMPPEvents.MUC_LEFT reaches the listener of ChatRoom.leave
MucLeftStep ==
    /\ conf.roomLeave.listener
    /\ Commit(OnMucLeft(conf, FALSE))
    /\ UNCHANGED << localTracks, pendingOps, el >>

\* the 5 s timeout of ChatRoom.leave fires
LeaveTimeoutStep ==
    /\ conf.roomLeave.timeout
    /\ Commit(OnMucLeft(conf, TRUE))
    /\ UNCHANGED << localTracks, pendingOps, el >>

\* addTrack(track)
AddTrackStep ==
    /\ \E track \in TrackPool :
          LET call == AddTrackCall(localTracks, conf.options, track)
          IN  IF call.result = "pending"
              THEN /\ Len(pendingOps) < MaxPendingOps
                   /\ pendingOps' = Append(pendingOps,
                                            DoReplaceTrack(conf, pendingOps, call.op))
              ELSE UNCHANGED pendingOps
    /\ UNCHANGED << conf, localTracks, hist, el >>

\* replaceTrack(oldTrack, newTrack) with a new track: an exchange, or an
\* addition when oldTrack is null
ReplaceTrackStep ==
    /\ \E oldTrack \in TrackPool \cup { NoTrack }, newTrack \in TrackPool :
          LET call == ReplaceTrackCall(localTracks, oldTrack, newTrack)
          IN  IF call.result = "pending"
              THEN /\ Len(pendingOps) < MaxPendingOps
                   /\ pendingOps' = Append(pendingOps,
                                            DoReplaceTrack(conf, pendingOps, call.op))
              ELSE UNCHANGED pendingOps
    /\ UNCHANGED << conf, localTracks, hist, el >>

\* replaceTrack(oldTrack, newTrack) of a client that sets a first microphone
\* and then changes from one microphone to the other
ReplaceAudioTrackStep ==
    /\ \E oldTrack \in AudioTracks \cup { NoTrack }, newTrack \in AudioTracks :
          LET call == ReplaceTrackCall(localTracks, oldTrack, newTrack)
          IN  /\ oldTrack # newTrack
              /\ oldTrack = NoTrack => localTracks = << >>
              /\ call.result = "pending"
              /\ Len(pendingOps) < MaxPendingOps
              /\ pendingOps' = Append(pendingOps,
                                       DoReplaceTrack(conf, pendingOps, call.op))
    /\ UNCHANGED << conf, localTracks, hist, el >>

\* replaceTrack(oldTrack, newTrack) of a client that awaits the promise of
\* each call before it makes the next
AwaitedReplaceAudioTrackStep ==
    /\ pendingOps = << >>
    /\ ReplaceAudioTrackStep

\* addTrack(track) of a disposed track
AddDisposedTrackStep ==
    /\ \E track \in DisposedTracks :
          LET call == AddTrackCall(localTracks, conf.options, track)
          IN  IF call.result = "pending"
              THEN /\ Len(pendingOps) < MaxPendingOps
                   /\ pendingOps' = Append(pendingOps,
                                            DoReplaceTrack(conf, pendingOps, call.op))
              ELSE UNCHANGED pendingOps
    /\ UNCHANGED << conf, localTracks, hist, el >>

\* replaceTrack(oldTrack, newTrack) where one of the two tracks is disposed
ReplaceDisposedTrackStep ==
    /\ \E oldTrack \in TrackPool \cup DisposedTracks \cup { NoTrack },
          newTrack \in TrackPool \cup DisposedTracks \cup { NoTrack } :
          LET call == ReplaceTrackCall(localTracks, oldTrack, newTrack)
          IN  /\ oldTrack.disposed \/ newTrack.disposed
              /\ IF call.result = "pending"
                 THEN /\ Len(pendingOps) < MaxPendingOps
                      /\ pendingOps' = Append(pendingOps,
                                               DoReplaceTrack(conf, pendingOps, call.op))
                 ELSE UNCHANGED pendingOps
    /\ UNCHANGED << conf, localTracks, hist, el >>

\* removeTrack(track)
RemoveTrackStep ==
    /\ \E track \in TrackPool :
          LET call == ReplaceTrackCall(localTracks, track, NoTrack)
          IN  /\ Len(pendingOps) < MaxPendingOps
              /\ pendingOps' = Append(pendingOps,
                                       DoReplaceTrack(conf, pendingOps, call.op))
    /\ UNCHANGED << conf, localTracks, hist, el >>

\* the promise of a pending track operation settles: its then-handler runs, or
\* the operation was rejected by the sessions
TrackOpSettledStep ==
    /\ \E i \in DOMAIN pendingOps, ok \in BOOLEAN :
          LET settled == IF ok THEN SettleTrackOp(localTracks, pendingOps[i])
                         ELSE localTracks
          IN  /\ SessionsSettled(pendingOps[i])
              /\ ok => \A k \in SessionKinds : pendingOps[i][k] # "failed"
              /\ Len(settled) <= MaxLocalTracks
              /\ localTracks' = settled
              /\ pendingOps' = RemoveAt(pendingOps, i)
    /\ UNCHANGED << conf, hist, el >>

\* a media session starts the renegotiation of the next operation in its queue
RenegotiationStartStep ==
    /\ \E i \in DOMAIN pendingOps, k \in SessionKinds :
          /\ CanStartRenegotiation(pendingOps, i, k)
          /\ pendingOps' = [pendingOps EXCEPT ![i][k] = "applying"]
    /\ UNCHANGED << conf, localTracks, hist, el >>

\* the renegotiation a media session is running settles
RenegotiationSettledStep ==
    /\ \E i \in DOMAIN pendingOps, k \in SessionKinds, ok \in BOOLEAN :
          /\ MicrotasksDrained
          /\ pendingOps[i][k] = "applying"
          /\ pendingOps' = [pendingOps EXCEPT ![i][k] = IF ok THEN "done" ELSE "failed"]
          /\ conf' = IF ok THEN SessionReplaceTrack(conf, pendingOps[i].sids[k], pendingOps[i])
                     ELSE conf
    /\ UNCHANGED << localTracks, hist, el >>

\* The switch between the bridge and the P2P connection: roster, offers,
\* sessions, the deferred start and leave().
Next ==
    \/ MucJoinedStep
    \/ MemberJoinedStep
    \/ PoltergeistJoinedStep
    \/ MemberLeftStep
    \/ MemberBotTypeChangedStep
    \/ IncomingP2PCallStep
    \/ IncomingJvbCallStep
    \/ JvbAcceptOfferResultStep
    \/ IceConnectionEstablishedStep
    \/ P2PIceConnectionFailedStep
    \/ CallEndedStep
    \/ DeferredStartP2PTimerStep
    \/ P2PTerminateResultStep
    \/ ManualStartP2PSessionStep
    \/ ManualStopP2PSessionStep
    \/ LeaveStep

Spec == Init /\ [][Next]_vars

\* The recovery of the bridge connection from ICE failures.
InitIce ==
    /\ conf = InitConf(DefaultOptions, Self)
    /\ localTracks = << >>
    /\ pendingOps = << >>
    /\ hist = InitHist
    /\ el = ElIdle

NextIce ==
    \/ MucJoinedStep
    \/ IncomingJvbCallStep
    \/ ForeignJvbCallStep
    \/ JvbAcceptOfferResultStep
    \/ JvbIceConnectionFailedStep
    \/ IceRestartTimerStep
    \/ IceConnectionInterruptedStep
    \/ IceConnectionRestoredStep
    \/ CallEndedStep
    \/ LeaveStep

SpecIce == InitIce /\ [][NextIce]_vars

\* leave() against the timers that are still armed.
NextLeave ==
    \/ MucJoinedStep
    \/ MemberJoinedStep
    \/ FocusJoinedStep
    \/ MemberLeftStep
    \/ FocusLeftStep
    \/ IncomingJvbCallStep
    \/ JvbIceConnectionFailedStep
    \/ IceRestartTimerStep
    \/ DeferredStartP2PTimerStep
    \/ LeaveStep

SpecLeave == InitIce /\ [][NextLeave]_vars

\* The local tracks of the conference.
InitTracks ==
    /\ conf \in { InitConf(o, Self) :
                    o \in { DefaultOptions,
                            [DefaultOptions EXCEPT !.allowMultipleTracks = TRUE] } }
    /\ localTracks = << >>
    /\ pendingOps = << >>
    /\ hist = InitHist
    /\ el = ElIdle

NextTracks ==
    \/ AddTrackStep
    \/ ReplaceTrackStep
    \/ RemoveTrackStep
    \/ TrackOpSettledStep
    \/ LeaveStep

SpecTracks == InitTracks /\ [][NextTracks]_vars

\* The local tracks of a client that also hands over tracks it has disposed.
NextDisposed ==
    \/ AddTrackStep
    \/ ReplaceTrackStep
    \/ AddDisposedTrackStep
    \/ ReplaceDisposedTrackStep
    \/ RemoveTrackStep
    \/ TrackOpSettledStep

SpecDisposed == InitTracks /\ [][NextDisposed]_vars

\* Leaving the room and the confirmation of the leave.
NextRoomLeave ==
    \/ MucJoinedStep
    \/ MemberJoinedStep
    \/ MemberLeftStep
    \/ IncomingJvbCallStep
    \/ LeaveStep
    \/ MucLeftStep
    \/ LeaveTimeoutStep

SpecRoomLeave == InitIce /\ [][NextRoomLeave]_vars

\* The roster, the conference properties and the transcription against the
\* P2P session.
NextRoster ==
    \/ MucJoinedStep
    \/ MemberJoinedStep
    \/ PoltergeistJoinedStep
    \/ JigasiJoinedStep
    \/ MemberLeftStep
    \/ MemberBotTypeChangedStep
    \/ PropertiesChangedStep
    \/ TranscribingChangedStep
    \/ IncomingP2PCallStep
    \/ DeferredStartP2PTimerStep

SpecRoster == Init /\ [][NextRoster]_vars

\* The switches between the bridge and P2P as participants come and go, with
\* the default and with a configured backToP2PDelay.
InitBackToP2P ==
    /\ conf \in { InitConf(o, Self) :
                    o \in { DefaultOptions,
                            [DefaultOptions EXCEPT
                                !.backToP2PDelay = << ConfiguredBackToP2PDelay >>] } }
    /\ localTracks = << >>
    /\ pendingOps = << >>
    /\ hist = InitHist
    /\ el = ElIdle

NextBackToP2P ==
    \/ MucJoinedStep
    \/ MemberJoinedStep
    \/ MemberLeftStep
    \/ PropertiesChangedStep
    \/ TranscribingChangedStep
    \/ IncomingP2PCallStep
    \/ IceConnectionEstablishedStep
    \/ DeferredStartP2PTimerStep

SpecBackToP2P == InitBackToP2P /\ [][NextBackToP2P]_vars

\* The offer / answer exchanges of the sessions and their failures.
NextNegotiation ==
    \/ MucJoinedStep
    \/ MemberJoinedStep
    \/ MemberLeftStep
    \/ IncomingP2PCallStep
    \/ IncomingJvbCallStep
    \/ JvbAcceptOfferResultStep
    \/ P2POfferAnswerResultStep
    \/ CallAcceptedStep
    \/ SetAnswerResultStep

SpecNegotiation == InitIce /\ [][NextNegotiation]_vars

\* Track operations of a conference that has media sessions: every session
\* renegotiates for every operation.
NextReneg ==
    \/ MucJoinedStep
    \/ IncomingJvbCallStep
    \/ ReplaceAudioTrackStep
    \/ RenegotiationStartStep
    \/ RenegotiationSettledStep
    \/ TrackOpSettledStep

SpecReneg == InitIce /\ [][NextReneg]_vars

\* A conference whose auxiliary fields are recorded.
InitRecorded ==
    /\ conf = [InitConf(DefaultOptions, Self) EXCEPT !.auxiliaryRecorded = TRUE]
    /\ localTracks = << >>
    /\ pendingOps = << >>
    /\ hist = InitHist
    /\ el = ElIdle

\* ICE failures and restorations of the bridge connection; the restorations
\* behind each backoff timer are recorded.
NextRestore ==
    \/ MucJoinedStep
    \/ IncomingJvbCallStep
    \/ JvbIceConnectionFailedStep
    \/ IceConnectionRestoredStep
    \/ IceRestartTimerStep

SpecRestore == InitRecorded /\ [][NextRestore]_vars

\* The update-room-presence pass over the local tracks of a conference that
\* holds up to two of them.
InitPresence ==
    /\ conf = InitConf(DefaultOptions, Self)
    /\ localTracks \in { t \in UNION { [1..n -> TrackPool] : n \in 0..2 } :
                            \A i, j \in DOMAIN t : i # j => t[i] # t[j] }
    /\ pendingOps = << >>
    /\ hist = InitHist
    /\ el = ElIdle

NextPresence ==
    \/ IncomingJvbCallStep
    \/ UpdateRoomPresenceStep
    \/ TrackMuteChangedStep

SpecPresence == InitPresence /\ [][NextPresence]_vars

\* The remote tracks of the sessions and of the participants while the
\* conference switches between the bridge and P2P.
NextRemote ==
    \/ MucJoinedStep
    \/ MemberJoinedStep
    \/ MemberLeftStep
    \/ IncomingJvbCallStep
    \/ RemoteTrackAddedStep
    \/ IceConnectionEstablishedStep
    \/ P2PIceConnectionFailedStep
    \/ CallEndedStep

SpecRemote == InitIce /\ [][NextRemote]_vars

\* ICE interruptions and restorations of the sessions while the conference
\* switches between the bridge and P2P.
NextInterrupt ==
    \/ MucJoinedStep
    \/ MemberJoinedStep
    \/ MemberLeftStep
    \/ IncomingJvbCallStep
    \/ IceConnectionEstablishedStep
    \/ IceConnectionInterruptedStep
    \/ IceConnectionRestoredStep
    \/ P2PIceConnectionFailedStep

SpecInterrupt == InitIce /\ [][NextInterrupt]_vars

\* Track operations while the conference switches between the bridge and
\* P2P; the tracks each session carries are recorded.
NextCarry ==
    \/ MucJoinedStep
    \/ MemberJoinedStep
    \/ IncomingJvbCallStep
    \/ P2PIceConnectionFailedStep
    \/ AwaitedReplaceAudioTrackStep
    \/ RenegotiationStartStep
    \/ RenegotiationSettledStep
    \/ TrackOpSettledStep

SpecCarry == InitRecorded /\ [][NextCarry]_vars

(* ------------------------------------------------------------------ *)
(* The leader election: two endpoints in one room                      *)
(* ------------------------------------------------------------------ *)
InitElection ==
    /\ conf = InitConf(DefaultOptions, Self)
    /\ localTracks = << >>
    /\ pendingOps = << >>
    /\ hist = InitHist
    /\ \E a \in Ids, b \in Ids :
          el = [ e \in Endpoints |->
                   InitConf(DefaultOptions, IF e = "A" THEN a ELSE b) ]

\* the endpoint e receives its own presence from the room
ElMucJoinedStep ==
    /\ \E e \in Endpoints :
          /\ el[e].room = "created"
          /\ el' = [el EXCEPT ![e] = OnMucJoined(el[e])]
    /\ UNCHANGED << conf, localTracks, pendingOps, hist >>

\* the endpoint e receives the presence of the other endpoint
ElMemberJoinedStep ==
    /\ \E e \in Endpoints :
          /\ ~HasParticipant(el[e], el[Other(e)].myId)
          /\ el' = [el EXCEPT ![e] = OnMemberJoined(el[e], el[Other(e)].myId, "none", FALSE)]
    /\ UNCHANGED << conf, localTracks, pendingOps, hist >>

NextElection ==
    \/ ElMucJoinedStep
    \/ ElMemberJoinedStep

SpecElection == InitElection /\ [][NextElection]_vars

(* ------------------------------------------------------------------ *)
(* Properties                                                          *)
(* ------------------------------------------------------------------ *)
\* a is lexicographically smaller than b: a is a proper prefix of b, or the
\* first position where they differ holds the smaller code unit in a
LexLess(a, b) ==
    \E k \in 0..Len(a) :
        /\ k <= Len(b)
        /\ \A i \in 1..k : a[i] = b[i]
        /\ \/ k = Len(a) /\ k < Len(b)
           \/ k < Len(a) /\ k < Len(b) /\ a[k + 1] < b[k + 1]

\* the endpoint e has created a P2P session toward the other endpoint
ElInitiates(e) ==
    \E i \in DOMAIN el[e].sessions :
        /\ el[e].sessions[i].isP2P
        /\ el[e].sessions[i].isInitiator
        /\ el[e].sessions[i].remote = el[Other(e)].myId

\* the endpoint e has joined, sees the other endpoint and has run the start rule
ElEvaluated(e) ==
    /\ el[e].room = "joined"
    /\ HasParticipant(el[e], el[Other(e)].myId)

\* C1: an endpoint initiates P2P only when its id is lexicographically smaller
\* than its peer's (so never when the ids are equal); once both endpoints of a
\* two-party room have evaluated the rule, exactly one of them has initiated,
\* the one with the smaller id.
LeaderElection ==
    /\ \A e \in Endpoints : ElInitiates(e) => LexLess(el[e].myId, el[Other(e)].myId)
    /\ (\A e \in Endpoints : ElEvaluated(e)) =>
          /\ Cardinality({ e \in Endpoints : ElInitiates(e) }) = 1
          /\ \A e \in Endpoints :
                ElInitiates(e) <=> LexLess(el[e].myId, el[Other(e)].myId)

\* C1 witness: both endpoints have evaluated the rule, A's id is a proper prefix
\* of B's, and A is the one that initiated
LeaderElectionWitness ==
    /\ \A e \in Endpoints : ElEvaluated(e)
    /\ el["A"].myId = <<1>>
    /\ el["B"].myId = <<1, 2>>
    /\ ElInitiates("A")
    /\ ~ElInitiates("B")

\* C2: whenever the conference has an active media session, it is of the
\* kind that isP2PActive() tells, a P2P session when P2P is active and a bridge
\* session otherwise, also while both session objects exist; so the other
\* session of the conference is never the active one.
OneActiveMediaPath ==
    LET active == GetActiveMediaSession(conf)
    IN  /\ active # Null => conf.sessions[active].isP2P = IsP2PActive(conf)
        /\ conf.p2pJingleSession # Null => conf.sessions[conf.p2pJingleSession].isP2P
        /\ conf.jvbJingleSession # Null => ~conf.sessions[conf.jvbJingleSession].isP2P
        /\ (conf.p2pJingleSession # Null /\ conf.jvbJingleSession # Null) =>
              active = (IF IsP2PActive(conf) THEN conf.p2pJingleSession
                        ELSE conf.jvbJingleSession)

\* C2 witness: both session objects exist while P2P is the active path
OneActiveMediaPathWitness ==
    /\ conf.p2pJingleSession # Null
    /\ conf.jvbJingleSession # Null
    /\ IsP2PActive(conf)
    /\ GetActiveMediaSession(conf) = conf.p2pJingleSession
    /\ conf.sessions[GetActiveMediaSession(conf)].isP2P

\* the step is onMemberJoined adding a participant to the roster [self, A] of a
\* joined conference while P2P is active on the conference's P2P session
ThirdParticipantJoins ==
    /\ IsJoined(conf)
    /\ conf'.op = "onMemberJoined"
    /\ "USER_JOINED" \in conf'.fx
    /\ Cardinality(conf.participants) = 1
    /\ Cardinality(conf'.participants) = 2
    /\ IsP2PActive(conf)
    /\ conf.p2pJingleSession # Null

\* what the join of the third participant is to do within its handler
SwitchedToBridge ==
    /\ "terminateP2P" \in conf'.fx
    /\ conf'.p2pJingleSession = Null
    /\ ~IsP2PActive(conf')
    /\ conf.jvbJingleSession # Null =>
          "resumeJvb" \in conf'.fx /\ conf'.jvbMediaTransferActive

\* C3 as stated: with P2P active and roster [self, A], the join of a third
\* participant stops the P2P session, resumes the bridge media transfer and
\* makes isP2PActive() false within the handler of the join.
ThirdJoinStopsP2PAlways == [][ThirdParticipantJoins => SwitchedToBridge]_vars

\* C3 amended: the same, for a conference whose automatic P2P switch is not
\* disabled (P2P enabled, no P2P test mode, a browser with P2P, no E2EE).
ThirdJoinStopsP2P ==
    [][(ThirdParticipantJoins /\ ~AutoP2PDisabled(conf)) => SwitchedToBridge]_vars

\* C3 witness: the third participant has joined, the P2P session got its stop
\* request and the bridge media transfer was resumed
ThirdJoinStopsP2PWitness ==
    /\ conf.op = "onMemberJoined"
    /\ Cardinality(conf.participants) = 2
    /\ ~AutoP2PDisabled(conf)
    /\ { "USER_JOINED", "terminateP2P", "resumeJvb", "P2P_STATUS" } \subseteq conf.fx
    /\ ~IsP2PActive(conf)
    /\ conf.jvbJingleSession # Null
    /\ conf.jvbMediaTransferActive

\* C4: when ICE is established on the current P2P session, the handler makes
\* P2P active, keeps the bridge session (not cleared, not terminated, no
\* session dropped) and, if there is one, suspends its media transfer.
P2PEstablishedSuspendsBridge ==
    [][(/\ conf'.op = "onIceConnectionEstablished"
        /\ conf.p2pJingleSession # Null
        /\ conf'.arg = "p2p")
           => /\ IsP2PActive(conf')
              /\ conf'.p2pJingleSession = conf.p2pJingleSession
              /\ conf'.jvbJingleSession = conf.jvbJingleSession
              /\ conf'.sessions = conf.sessions
              /\ conf.jvbJingleSession # Null =>
                    /\ "suspendJvb" \in conf'.fx
                    /\ ~conf'.jvbMediaTransferActive
              /\ conf.jvbJingleSession = Null => "suspendJvb" \notin conf'.fx]_vars

\* C4 witness: ICE got established on the P2P session while a bridge session
\* existed; P2P became active and the bridge session is kept, suspended
P2PEstablishedSuspendsBridgeWitness ==
    /\ conf.op = "onIceConnectionEstablished"
    /\ conf.arg = "p2p"
    /\ conf.p2pJingleSession # Null
    /\ { "P2P_STATUS", "suspendJvb" } \subseteq conf.fx
    /\ IsP2PActive(conf)
    /\ conf.jvbJingleSession # Null
    /\ ~conf.jvbMediaTransferActive

\* C5: when ICE fails on the conference's P2P session, the handler schedules
\* no ICE restart, terminates the P2P session, makes isP2PActive() false,
\* leaves the bridge session as the active media session (resuming its media
\* transfer if P2P had been active) and emits no CONFERENCE_FAILED.
P2PIceFailureFallsBack ==
    [][(/\ conf'.op = "onIceConnectionFailed"
        /\ conf.p2pJingleSession # Null
        /\ conf'.arg = "p2p")
           => /\ "scheduleIceRestart" \notin conf'.fx
              /\ conf'.iceTimers = conf.iceTimers
              /\ conf'.delayedIceFailed = conf.delayedIceFailed
              /\ conf'.iceRestarts = conf.iceRestarts
              /\ "terminateP2P" \in conf'.fx
              /\ conf'.p2pJingleSession = Null
              /\ ~IsP2PActive(conf')
              /\ GetActiveMediaSession(conf') = conf.jvbJingleSession
              /\ (IsP2PActive(conf) /\ conf.jvbJingleSession # Null) =>
                    "resumeJvb" \in conf'.fx /\ conf'.jvbMediaTransferActive
              /\ \A e \in conf'.fx :
                    e \notin { "CONFERENCE_FAILED:ICE_FAILED",
                               "CONFERENCE_FAILED:OFFER_ANSWER_FAILED" }]_vars

\* C5 witness: ICE failed on the active P2P session while a bridge session
\* existed; the conference is back on the bridge
P2PIceFailureFallsBackWitness ==
    /\ conf.op = "onIceConnectionFailed"
    /\ conf.arg = "p2p"
    /\ { "terminateP2P", "resumeJvb", "P2P_STATUS" } \subseteq conf.fx
    /\ ~IsP2PActive(conf)
    /\ conf.jvbJingleSession # Null
    /\ GetActiveMediaSession(conf) = conf.jvbJingleSession
    /\ conf.iceTimers = << >>

\* C8 as stated: in a joined conference a deferred P2P start does not outlive
\* the conditions it was scheduled under: its timer starts a P2P session only
\* if the conference should still be in P2P mode when it fires.
DeferredStartOnlyWhileConditionsHold ==
    [][(/\ IsJoined(conf)
        /\ conf'.op = "deferredStartP2PTimer"
        /\ "startP2P" \in conf'.fx)
           => ShouldBeInP2PMode(conf)]_vars

\* C6 as stated: however the bridge ICE failures arrive, the conference
\* performs at most MAX_CONNECTION_RETRIES ICE restarts.
BoundedIceRestarts == hist.restartsPerformed <= MAX_CONNECTION_RETRIES

NoTimerTakesEffectAfterLeave ==
    [][conf.room = "null" =>
          /\ conf'.sessions = conf.sessions
          /\ conf'.p2pJingleSession = Null
          /\ conf'.jvbJingleSession = Null
          /\ hist'.restartsPerformed = hist.restartsPerformed
          /\ "startP2P" \notin conf'.fx
          /\ "iceRestart" \notin conf'.fx]_vars

\* C9 witness: the deferred P2P start and an ICE restart backoff, both armed
\* before leave(), have both fired after it
NoTimerTakesEffectAfterLeaveWitness ==
    /\ conf.room = "null"
    /\ hist.afterLeave = { "deferredStartP2PTimer", "iceRestartTimer" }
    /\ conf.p2pJingleSession = Null
    /\ conf.iceTimers = << >>
    /\ conf.deferredStartP2PTask = NoJid

\* C10 as stated: unless testing.allowMultipleTracks is set, the conference
\* never holds two local tracks of the same media kind and video type.
OneLocalTrackPerKind ==
    ~conf.options.allowMultipleTracks =>
        \A i, j \in DOMAIN localTracks :
            (i # j /\ localTracks[i].name # localTracks[j].name) =>
                \/ localTracks[i].type # localTracks[j].type
                \/ localTracks[i].videoType # localTracks[j].videoType

\* the operations a step keeps pending, position by position
SamePendingOps ==
    /\ Len(pendingOps') = Len(pendingOps)
    /\ \A i \in DOMAIN pendingOps :
          /\ pendingOps'[i].old = pendingOps[i].old
          /\ pendingOps'[i].new = pendingOps[i].new

IncomingCalls == P2PCalls \cup JvbCalls \cup ForeignJvbCalls

\* a session-initiate that violates the protocol
ProtocolViolation(c, call) ==
    \/ call.isP2P /\ c.p2pJingleSession # Null
    \/ ~call.isP2P /\ c.jvbJingleSession # Null
    \/ ~call.isP2P /\ ~call.fromFocus
    \/ call.isP2P /\ ~call.unified

\* C13 as stated: a session-initiate that violates the protocol is rejected,
\* leaves the session references of the conference as they are and emits no
\* CONFERENCE_FAILED.
RejectsProtocolViolations ==
    [][\A call \in IncomingCalls :
          (/\ conf.room # "null"
           /\ ProtocolViolation(conf, call)
           /\ conf' = OnIncomingCall(conf, call))
              => /\ "rejectIncomingCall" \in conf'.fx
                 /\ conf'.p2pJingleSession = conf.p2pJingleSession
                 /\ conf'.jvbJingleSession = conf.jvbJingleSession
                 /\ conf'.sessions = conf.sessions
                 /\ \A e \in conf'.fx :
                       e \notin { "CONFERENCE_FAILED:ICE_FAILED",
                                  "CONFERENCE_FAILED:OFFER_ANSWER_FAILED" }]_vars

\* C14 as stated: a P2P session-initiate that arrives while
\* _shouldBeInP2PMode() is false is rejected with the reason decline, and no
\* P2P session is created or activated by it.
DeclinesP2POfferOutsideP2PMode ==
    [][\A call \in P2PCalls :
          (/\ conf.room # "null"
           /\ ~ShouldBeInP2PMode(conf)
           /\ conf' = OnIncomingCall(conf, call))
              => /\ { "rejectIncomingCall", "decline" } \subseteq conf'.fx
                 /\ conf'.sessions = conf.sessions
                 /\ conf'.p2pJingleSession = conf.p2pJingleSession
                 /\ conf'.p2p = conf.p2p]_vars

\* C14 amended: such a session-initiate is never accepted: it is rejected, with
\* the reason busy when the conference already has a P2P session and with the
\* reason decline otherwise, and no P2P session is created or activated by it.
NeverAcceptsP2POfferOutsideP2PMode ==
    [][\A call \in P2PCalls :
          (/\ conf.room # "null"
           /\ ~ShouldBeInP2PMode(conf)
           /\ conf' = OnIncomingCall(conf, call))
              => /\ "rejectIncomingCall" \in conf'.fx
                 /\ "acceptP2P" \notin conf'.fx
                 /\ IF conf.p2pJingleSession # Null /\ call.unified
                    THEN "busy" \in conf'.fx ELSE "decline" \in conf'.fx
                 /\ conf'.sessions = conf.sessions
                 /\ conf'.p2pJingleSession = conf.p2pJingleSession
                 /\ conf'.p2p = conf.p2p]_vars

\* C14 witness: with two remote participants in the room a P2P offer has been
\* declined; the conference has no P2P session
NeverAcceptsP2POfferOutsideP2PModeWitness ==
    /\ conf.op = "onIncomingCall"
    /\ conf.fx = { "rejectIncomingCall", "decline" }
    /\ IsJoined(conf)
    /\ Cardinality(conf.participants) = 2
    /\ ~ShouldBeInP2PMode(conf)
    /\ conf.p2pJingleSession = Null
    /\ ~conf.p2p

\* addTrack(track) would add a second track of the media kind and video type
SecondTrackOfKind(tracks, track) ==
    /\ track \notin Range(tracks)
    /\ \E t \in Range(tracks) : t.type = track.type /\ t.videoType = track.videoType

\* C15 as stated: addTrack of a second track of the same media kind and video
\* type without testing.allowMultipleTracks, and replaceTrack with a disposed
\* old or new track, fail (thrown error or rejected promise) and hand no
\* operation to the sessions, so that the local tracks and both sessions stay
\* as they are.
SecondAndDisposedTracksAreRefused ==
    /\ ~conf.options.allowMultipleTracks =>
          \A track \in TrackPool :
              SecondTrackOfKind(localTracks, track) =>
                  AddTrackCall(localTracks, conf.options, track).result
                      \in { "throw", "rejected" }
    /\ \A oldTrack, newTrack \in TrackPool \cup DisposedTracks \cup { NoTrack } :
          (oldTrack.disposed \/ newTrack.disposed) =>
              ReplaceTrackCall(localTracks, oldTrack, newTrack).result
                  \in { "throw", "rejected" }

\* C16 as stated: the promise of ChatRoom.leave() resolves when MUC_LEFT is
\* received before the 5 s timeout has fired, and rejects when the timeout
\* fires first.
LeaveResolvesOnMucLeftElseRejects ==
    [][/\ conf' = OnMucLeft(conf, FALSE) => conf'.roomLeave.promise = "fulfilled"
       /\ conf' = OnMucLeft(conf, TRUE) => conf'.roomLeave.promise = "rejected"]_vars

\* the handlers of roster changes, of conference-properties changes and of
\* the transcription toggle
RosterHandlers ==
    { "onMemberJoined", "onMemberLeft", "onMemberBotTypeChanged",
      "updateProperties", "setTranscribingEnabled" }

\* C17 as stated: when the handler of a roster change, of a conference
\* properties change or of a transcription toggle has run in a joined
\* conference, a P2P session exists only if _shouldBeInP2PMode() is true.
P2POnlyWhileShouldBeInP2PMode ==
    [][(conf'.op \in RosterHandlers /\ IsJoined(conf')) =>
          (conf'.p2pJingleSession # Null => ShouldBeInP2PMode(conf'))]_vars

\* the invite() of the P2P session this endpoint has started has not settled
P2PStartPending(c) ==
    /\ c.p2pJingleSession # Null
    /\ c.sessions[c.p2pJingleSession].isInitiator
    /\ c.sessions[c.p2pJingleSession].offer = "pending"

\* C18 as stated: a stop of the P2P session that is requested while the
\* start (invite) of that session is still pending does not take effect
\* before the start has settled: no step lets go of a P2P session whose
\* invite is pending.
StopWaitsForPendingStart ==
    [][P2PStartPending(conf) => conf'.p2pJingleSession = conf.p2pJingleSession]_vars

\* C19: at most one timer of a deferred P2P start is armed at any time, and it
\* is the one deferredStartP2PTask refers to: the handle is null exactly when no
\* timer is armed (it is cleared when the timer fires or is cancelled), and a
\* handler that finds the handle set and leaves it set has armed nothing.
SingleDeferredStartTimer ==
    [][/\ Len(conf'.deferredTimers) <= 1
       /\ conf'.deferredStartP2PTask = NoJid <=> conf'.deferredTimers = << >>
       /\ conf'.deferredStartP2PTask # NoJid =>
              conf'.deferredTimers[1].jid = conf'.deferredStartP2PTask
       /\ (conf.deferredStartP2PTask # NoJid /\ conf'.deferredStartP2PTask # NoJid) =>
              /\ conf'.deferredTimers = conf.deferredTimers
              /\ "deferStartP2P" \notin conf'.fx]_vars

\* a deferred start is scheduled and a further request to schedule one has
\* found it and armed nothing
SingleDeferredStartTimerWitness ==
    /\ conf.op \in { "updateProperties", "setTranscribingEnabled" }
    /\ "deferredStartAlreadySet" \in conf.fx
    /\ conf.deferredStartP2PTask # NoJid
    /\ Len(conf.deferredTimers) = 1
    /\ conf.p2pJingleSession = Null

\* the step is onMemberJoined adding a second remote participant to a joined
\* conference that has a P2P session
ThirdJoinsDuringP2P ==
    /\ IsJoined(conf)
    /\ conf'.op = "onMemberJoined"
    /\ "USER_JOINED" \in conf'.fx
    /\ Cardinality(conf.participants) = 1
    /\ Cardinality(conf'.participants) = 2
    /\ conf.p2pJingleSession # Null

UserLeftHandlers == { "onMemberLeft", "updateProperties", "setTranscribingEnabled" }

\* the step is a handler that has re-evaluated the P2P mode of a joined
\* conference: a participant joined or left, or the visitors or the
\* transcription changed
P2PModeReevaluated ==
    /\ IsJoined(conf)
    /\ \/ conf'.op = "onMemberJoined" /\ "USER_JOINED" \in conf'.fx
       \/ conf'.op = "onMemberLeft" /\ "USER_LEFT" \in conf'.fx
       \/ conf'.op = "updateProperties" /\ conf'.hasVisitors # conf.hasVisitors
       \/ conf'.op = "setTranscribingEnabled"
             /\ conf'.transcribingEnabled # conf.transcribingEnabled

ShouldBeInP2PModeIffOnePlainPeer ==
    ShouldBeInP2PMode(conf) <=>
        /\ \E p \in conf.participants : conf.participants = { p }
        /\ \A p \in conf.participants : p.botType # "poltergeist" /\ ~p.jigasi
        /\ conf.hasVisitors \in { "undefined", "false" }
        /\ conf.transcribingEnabled \in { "undefined", "false" }

\* the join of a plain participant has found the conference in P2P mode and
\* started the P2P session, neither flag having been set so far
ShouldBeInP2PModeIffOnePlainPeerWitness ==
    /\ conf.op = "onMemberJoined"
    /\ "startP2P" \in conf.fx
    /\ ShouldBeInP2PMode(conf)
    /\ conf.hasVisitors = "undefined"
    /\ conf.transcribingEnabled = "undefined"

\* the handlers of the signals of a media session
SessionSignalHandlers ==
    { "onIceConnectionEstablished", "onIceConnectionFailed", "onCallAccepted", "onCallEnded" }

\* C22 as stated: a signal of a session other than the conference's current
\* P2P session (ICE established, ICE failed, session-accept, call ended)
\* neither activates P2P nor stops or changes the current P2P session.
StaleSignalsLeaveP2PSessionAlone ==
    [][(conf'.op \in SessionSignalHandlers /\ conf'.arg # "p2p") =>
          /\ conf'.p2pJingleSession = conf.p2pJingleSession
          /\ conf'.p2p = conf.p2p
          /\ conf.p2pJingleSession # Null =>
                conf'.sessions[conf.p2pJingleSession] = conf.sessions[conf.p2pJingleSession]]_vars

\* C23 as stated: in every state, after leave() as well, isP2PActive() implies
\* that the conference has a P2P session.
P2PActiveImpliesP2PSession ==
    IsP2PActive(conf) => conf.p2pJingleSession # Null

\* C24 as stated: whenever the conference has a bridge session whose offer
\* has been accepted, the media transfer of the bridge session is suspended
\* if and only if P2P is active. (setMediaTransferActive takes effect at once
\* here, so that no suspend or resume request is ever pending.)
BridgeSuspendedIffP2PActive ==
    (conf.jvbJingleSession # Null /\ ~conf.jvbAcceptPending) =>
        (~conf.jvbMediaTransferActive <=> IsP2PActive(conf))

\* the names of the local tracks the conference holds
LocalTrackNames(tracks) == { tracks[i].name : i \in DOMAIN tracks }

\* C25 as stated: a step that stops the P2P session leaves the local tracks of
\* the conference as they are, and the bridge session that remains then, or
\* that is accepted while there is no P2P session, carries every local track
\* the conference holds.
P2PStopKeepsLocalTracksOnBridge ==
    /\ [][(conf.p2pJingleSession # Null /\ conf'.p2pJingleSession = Null) =>
              /\ localTracks' = localTracks
              /\ conf'.jvbJingleSession # Null =>
                    LocalTrackNames(localTracks') \subseteq
                        conf'.sessions[conf'.jvbJingleSession].tracks]_vars
    /\ [][(conf'.p2pJingleSession = Null /\ conf'.jvbJingleSession # conf.jvbJingleSession
                /\ conf'.jvbJingleSession # Null) =>
              LocalTrackNames(localTracks') \subseteq
                  conf'.sessions[conf'.jvbJingleSession].tracks]_vars

\* the session a handler ran for is the active media path: it is what
\* getActiveMediaSession() returns
RanForActiveMediaSession(c) ==
    \/ c.arg = "p2p" /\ IsP2PActive(c)
    \/ c.arg = "jvb" /\ ~IsP2PActive(c)

\* C26 as stated: an ICE interruption of a session sets the interrupted flag
\* of the session's kind and emits CONNECTION_INTERRUPTED if and only if the
\* session is the active media path; an ICE restoration clears the flag and
\* emits CONNECTION_RESTORED under the same condition.
InterruptionSignalledIffActivePath ==
    [][/\ conf'.op = "onIceConnectionInterrupted" =>
            /\ conf'.arg \in { "p2p", "formerP2P" } => conf'.isP2PConnectionInterrupted
            /\ conf'.arg \in { "jvb", "formerJvb" } => conf'.isJvbConnectionInterrupted
            /\ "CONNECTION_INTERRUPTED" \in conf'.fx <=> RanForActiveMediaSession(conf')
       /\ conf'.op = "onIceConnectionRestored" =>
            /\ conf'.arg \in { "p2p", "formerP2P" } => ~conf'.isP2PConnectionInterrupted
            /\ conf'.arg \in { "jvb", "formerJvb" } => ~conf'.isJvbConnectionInterrupted
            /\ "CONNECTION_RESTORED" \in conf'.fx <=> RanForActiveMediaSession(conf')]_vars

\* C27 as stated: when the ICE connection of the bridge session has been
\* restored after an ICE failure and before the backoff timer of that failure
\* has fired, the timer performs no ICE restart.
RestoredFailureIsNotRestarted ==
    [][(conf'.op = "iceRestartTimer" /\ "restoredBeforeRestart" \in conf'.fx) =>
          "iceRestart" \notin conf'.fx]_vars

\* the signal that matches isConnectionInterrupted()
MatchingSignal(c) ==
    IF IsConnectionInterrupted(c) THEN "CONNECTION_INTERRUPTED" ELSE "CONNECTION_RESTORED"

\* C28 as stated: the most recently emitted of CONNECTION_INTERRUPTED and
\* CONNECTION_RESTORED agrees with isConnectionInterrupted() after every
\* handler. No signal has been emitted and the connection is not interrupted
\* when the conference is constructed, so this is: a handler that changes
\* what isConnectionInterrupted() returns emits the matching signal, and a
\* handler emits no signal but the matching one.
LastSignalAgreesWithInterrupted ==
    [][/\ IsConnectionInterrupted(conf') # IsConnectionInterrupted(conf) =>
              MatchingSignal(conf') \in conf'.fx
       /\ \A e \in { "CONNECTION_INTERRUPTED", "CONNECTION_RESTORED" } :
              e \in conf'.fx => e = MatchingSignal(conf')]_vars

\* C29 as stated: every remote track attached to a participant belongs to
\* the active media session, and on a switch of the active media session the
\* remote tracks of the session that becomes active are attached to the
\* participants in the roster.
RemoteTracksBelongToActiveSession ==
    /\ [](\A t \in conf.attachedTracks : t.session = GetActiveMediaSession(conf))
    /\ [][(GetActiveMediaSession(conf') # GetActiveMediaSession(conf)
              /\ GetActiveMediaSession(conf') # Null) =>
                \A t \in GetRemoteTracks(conf', GetActiveMediaSession(conf')) :
                    HasParticipant(conf', t.owner) => t \in conf'.attachedTracks]_vars

\* C30: the update-room-presence pass is idempotent. A pass that follows a
\* pass, no mute state or video type of a local track having changed in
\* between, sends no presence; and the invocations that share a context
\* object send at most one presence between them.
UpdateRoomPresenceIdempotent ==
    /\ [][(/\ conf.op = "updateRoomPresence" /\ "presencePass" \in conf.fx
            /\ conf'.op = "updateRoomPresence"
            /\ conf'.mutedTracks = conf.mutedTracks /\ localTracks' = localTracks) =>
              "sendPresence" \notin conf'.fx]_vars
    /\ [](\A k \in 1..MaxContexts : conf.presence.ctx[k].sends <= 1)

\* a pass has run over the tracks again and has sent nothing, the SourceInfo
\* node being in the presence already; a context object has one presence sent
\* on its account
UpdateRoomPresenceIdempotentWitness ==
    /\ conf.op = "updateRoomPresence"
    /\ "presencePass" \in conf.fx
    /\ "sendPresence" \notin conf.fx
    /\ Len(conf.presence.nodes) = 1
    /\ localTracks # << >>
    /\ \E k \in 1..MaxContexts : conf.presence.ctx[k].sends = 1

(* ------------------------------------------------------------------ *)
(* C31: the roster against the membership signals                      *)
(* ------------------------------------------------------------------ *)
\* how many times the handler that ran last emitted e
TimesEmitted(c, e) == Cardinality({ i \in DOMAIN c.emitted : c.emitted[i].e = e })

\* the handler that ran last emitted TRACK_REMOVED for the track t, and
\* emitted USER_LEFT only after it
RemovedBeforeUserLeft(c, t) ==
    \E i \in DOMAIN c.emitted :
        /\ c.emitted[i].e = "TRACK_REMOVED"
        /\ t \in c.emitted[i].about
        /\ \A j \in DOMAIN c.emitted : c.emitted[j].e = "USER_LEFT" => i < j

\* the _tracks of the participant id
ParticipantTracks(c, id) == { t \in c.attachedTracks : t.owner = id }

\* Members come and go while the bridge offers sessions and the sessions
\* signal remote tracks; what each handler emits is recorded in order.
NextMembership ==
    \/ MucJoinedStep
    \/ MemberJoinedStep
    \/ FocusJoinedStep
    \/ MemberLeftStep
    \/ FocusLeftStep
    \/ IncomingJvbCallStep
    \/ RemoteTrackAddedStep

SpecMembership == InitRecorded /\ [][NextMembership]_vars

\* C31: a roster entry is created exactly when a member that is neither the
\* focus nor the own endpoint joins, with USER_JOINED emitted once, and is
\* removed exactly when that member leaves, with USER_LEFT emitted once and
\* after TRACK_REMOVED for each of the tracks of the participant.
RosterFollowsMembership ==
    [][/\ conf'.participants # conf.participants =>
             \/ /\ conf'.op = "onMemberJoined"
                /\ \E id \in RemoteIds :
                      /\ ~HasParticipant(conf, id)
                      /\ { p.id : p \in conf'.participants } =
                             { p.id : p \in conf.participants } \cup { id }
                /\ TimesEmitted(conf', "USER_JOINED") = 1
                /\ TimesEmitted(conf', "USER_LEFT") = 0
             \/ /\ conf'.op = "onMemberLeft"
                /\ \E id \in RemoteIds :
                      /\ HasParticipant(conf, id)
                      /\ { p.id : p \in conf'.participants } =
                             { p.id : p \in conf.participants } \ { id }
                      /\ \A t \in ParticipantTracks(conf, id) :
                             RemovedBeforeUserLeft(conf', t)
                /\ TimesEmitted(conf', "USER_LEFT") = 1
                /\ TimesEmitted(conf', "USER_JOINED") = 0
       /\ conf'.participants = conf.participants =>
             /\ TimesEmitted(conf', "USER_JOINED") = 0
             /\ TimesEmitted(conf', "USER_LEFT") = 0]_vars

(* ------------------------------------------------------------------ *)
(* The room of the conference: joining, presences, leaving             *)
(* ------------------------------------------------------------------ *)
\* the JIDs of the occupants of the room of the conference
OccupantJids == { << "room", id >> : id \in RemoteIds \cup { Focus, Self } }

\* The conference right after its constructor, which creates its ChatRoom;
\* the ChatRoom is followed and what the handlers emit is recorded in order.
InitRoom ==
    /\ conf = CreateRoom([InitConf(DefaultOptions, Self) EXCEPT !.auxiliaryRecorded = TRUE],
                         << "room", Self >>)
    /\ localTracks = << >>
    /\ pendingOps = << >>
    /\ hist = InitHist
    /\ el = ElIdle

\* join() of the conference: room.join(), once
RoomJoinStep ==
    /\ conf.room # "null"
    /\ conf.chatRooms[1].preJoins = 0
    /\ conf.chatRooms[1].presenceSyncTime = << >>
    /\ Commit(Join(Begin(conf, "join", "none"), 1))
    /\ UNCHANGED << localTracks, pendingOps, el >>

\* the conference request of a join() is answered
PreJoinResolvedStep ==
    /\ \E r \in DOMAIN conf.chatRooms :
          /\ conf.chatRooms[r].preJoins > 0
          /\ Commit(OnPreJoinResolved(conf, r))
    /\ UNCHANGED << localTracks, pendingOps, el >>

\* MucConnectionPlugin.onPresence: a presence of an occupant of a room that
\* is registered, once the room has been sent a presence that joins
PresenceStep ==
    /\ \E from \in OccupantJids :
          LET r == RoomOf(conf, from)
          IN  /\ r # Null
              /\ conf.chatRooms[r].presenceSyncTime # << >>
              /\ Commit(ChatRoomOnPresence(conf, r, from, GetResourceFromJid(from) = Focus))
    /\ UNCHANGED << localTracks, pendingOps, el >>

\* MucConnectionPlugin.onPresenceUnavailable: the unavailable presence of an
\* occupant; that of the own occupant carries the status 110
PresenceUnavailableStep ==
    /\ \E from \in OccupantJids, isKick \in BOOLEAN, special \in { "none", "destroy", "ignore" } :
          LET r == RoomOf(conf, from)
          IN  /\ r # Null
              /\ conf.chatRooms[r].presenceSyncTime # << >>
              /\ Commit(ChatRoomOnPresenceUnavailable(conf, r, from,
                            from = conf.chatRooms[r].myroomjid, isKick,
                            special = "destroy", special = "ignore"))
    /\ UNCHANGED << localTracks, pendingOps, el >>

\* leave() of the conference, up to the await and past it when room.leave()
\* has settled at once
LeaveAwaitedStep ==
    /\ conf.room # "null"
    /\ Commit(LeaveSettled(Leave(conf)))
    /\ UNCHANGED << localTracks, pendingOps, el >>

\* the 5 s timeout of ChatRoom.leave fires, and leave() goes on
LeaveTimeoutSettledStep ==
    /\ conf.roomLeave.timeout
    /\ Commit(LeaveSettled(OnMucLeft(conf, TRUE)))
    /\ UNCHANGED << localTracks, pendingOps, el >>

NextConferenceLeave ==
    \/ RoomJoinStep
    \/ PreJoinResolvedStep
    \/ PresenceStep
    \/ PresenceUnavailableStep
    \/ LeaveAwaitedStep
    \/ LeaveTimeoutSettledStep

SpecConferenceLeave == InitRoom /\ [][NextConferenceLeave]_vars

\* C32: once leave() has settled, by the confirmation of the room or by the
\* timeout, no participant is left in the roster of the conference.
RosterEmptyAfterLeave ==
    (conf.room = "null" /\ conf.roomLeave.promise = "fulfilled") => conf.participants = {}

\* MucConnectionPlugin.onPresenceError: an error presence from the room, in
\* answer to a presence that joins
PresenceErrorStep ==
    /\ \E error \in PresenceErrors, anonymous \in BOOLEAN :
          LET r == RoomOf(conf, << "room", Self >>)
          IN  /\ r # Null
              /\ conf.chatRooms[r].presenceSyncTime # << >>
              /\ ~conf.chatRooms[r].joined
              /\ conf.chatRooms[r].roomCreationRetries < MaxRoomCreationErrors
              /\ Commit(OnPresenceError(conf, r, error, anonymous))
    /\ UNCHANGED << localTracks, pendingOps, el >>

\* the timer of a room creation retry fires
RoomCreationRetryTimerStep ==
    /\ \E r \in DOMAIN conf.chatRooms :
          /\ conf.chatRooms[r].retryTimers > 0
          /\ Commit(OnRoomCreationRetryTimer(conf, r))
    /\ UNCHANGED << localTracks, pendingOps, el >>

\* the own presence of the room of the conference arrives
SelfPresenceStep ==
    /\ conf.emuc[<< "room" >>] = 1
    /\ conf.chatRooms[1].presenceSyncTime # << >>
    /\ Commit(ChatRoomOnPresence(conf, 1, conf.chatRooms[1].myroomjid, FALSE))
    /\ UNCHANGED << localTracks, pendingOps, el >>

\* Joining the room of the conference with the errors of the join and the
\* retries, and leaving it.
NextRoomRetry ==
    \/ RoomJoinStep
    \/ PreJoinResolvedStep
    \/ SelfPresenceStep
    \/ PresenceErrorStep
    \/ RoomCreationRetryTimerStep
    \/ LeaveAwaitedStep
    \/ LeaveTimeoutSettledStep

SpecRoomRetry == InitRoom /\ [][NextRoomRetry]_vars

(* ------------------------------------------------------------------ *)
(* C33: MUC_JOINED and MUC_JOIN_IN_PROGRESS                            *)
(* ------------------------------------------------------------------ *)
\* the handler that ran last emitted e1, and e2 only after it
EmittedBefore(c, e1, e2) ==
    \E i \in DOMAIN c.emitted :
        /\ c.emitted[i].e = e1
        /\ \A j \in DOMAIN c.emitted : c.emitted[j].e = e2 => i < j

\* C33: MUC_JOINED is emitted by the first own presence that arrives while
\* the room has not joined, once, and by nothing else; MUC_JOIN_IN_PROGRESS
\* is emitted by the first presence of the join, once and ahead of
\* MUC_JOINED; and the two flags that remember the emissions are reset only
\* by the step that completes the leave.
MucJoinedOncePerJoin ==
    [][LET room == conf.chatRooms[1]
           room2 == conf'.chatRooms[1]
       IN  /\ "MUC_JOINED" \in conf'.fx <=>
                 (~room.joined /\ conf'.op = "chatRoomOnPresence" /\ conf'.arg = "self")
           /\ "MUC_JOINED" \in conf'.fx =>
                 room2.joined /\ TimesEmitted(conf', "MUC_JOINED") = 1
           /\ "MUC_JOIN_IN_PROGRESS" \in conf'.fx <=>
                 (~room.joined /\ ~room.inProgressEmitted /\ conf'.op = "chatRoomOnPresence")
           /\ "MUC_JOIN_IN_PROGRESS" \in conf'.fx =>
                 /\ room2.inProgressEmitted
                 /\ TimesEmitted(conf', "MUC_JOIN_IN_PROGRESS") = 1
                 /\ EmittedBefore(conf', "MUC_JOIN_IN_PROGRESS", "MUC_JOINED")
           /\ (room.joined /\ ~room2.joined) \/ (room.inProgressEmitted /\ ~room2.inProgressEmitted)
                 => conf.roomLeave.promise # "fulfilled" /\ conf'.roomLeave.promise = "fulfilled"
      ]_vars

\* C33 witness: leave() has been called and is not confirmed yet, and one
\* more own presence has arrived without MUC_JOINED being emitted again.
MucJoinedOncePerJoinWitness ==
    /\ conf.op = "chatRoomOnPresence" /\ conf.arg = "self"
    /\ conf.chatRooms[1].joined /\ conf.chatRooms[1].leaveCalled
    /\ conf.roomLeave.promise = "pending"
    /\ "MUC_JOINED" \notin conf.fx

(* ------------------------------------------------------------------ *)
(* C34: no presence that joins after leave()                           *)
(* ------------------------------------------------------------------ *)
\* C34: once ChatRoom.leave() has been called on the room, no handler sends
\* a presence that joins it: neither the answer to a conference request
\* that was pending nor the timer of a room creation retry.
NoJoinPresenceAfterLeave ==
    [][conf.chatRooms[1].leaveCalled => "sendJoinPresence" \notin conf'.fx]_vars

(* ------------------------------------------------------------------ *)
(* C35: the retries of the room creation                               *)
(* ------------------------------------------------------------------ *)
\* C35: a presence error 'Room creation is restricted' arms a retry timer
\* and emits nothing as long as fewer than three such errors have been
\* handled; from the fourth on it emits ROOM_CONNECT_NOT_ALLOWED_ERROR and
\* arms none. Nothing else arms a retry timer, a timer that fires joins
\* again, and no more than three timers are ever armed.
RoomCreationRetriesBounded ==
    /\ [][LET room == conf.chatRooms[1]
              room2 == conf'.chatRooms[1]
          IN  /\ (conf'.op = "chatRoomOnPresenceError" /\ conf'.arg = "restricted") =>
                    /\ room2.roomCreationRetries = room.roomCreationRetries + 1
                    /\ IF room.roomCreationRetries < 3
                       THEN /\ room2.retryTimers = room.retryTimers + 1
                            /\ conf'.fx = { "setTimeout" }
                       ELSE /\ room2.retryTimers = room.retryTimers
                            /\ conf'.fx = { "ROOM_CONNECT_NOT_ALLOWED_ERROR" }
              /\ room2.retryTimers > room.retryTimers =>
                    conf'.op = "chatRoomOnPresenceError" /\ conf'.arg = "restricted"
              /\ room2.retryTimers < room.retryTimers =>
                    /\ conf'.op = "roomCreationRetryTimer"
                    /\ room2.retryTimers = room.retryTimers - 1
                    /\ room2.preJoins = room.preJoins + 1
         ]_vars
    /\ [](LET room == conf.chatRooms[1]
          IN  room.retryTimers <= IF room.roomCreationRetries < 3
                                  THEN room.roomCreationRetries ELSE 3)

\* C35 witness: the fourth error 'Room creation is restricted' has been
\* handled after the three retries have joined again
RoomCreationRetriesBoundedWitness ==
    /\ conf.op = "chatRoomOnPresenceError" /\ conf.arg = "restricted"
    /\ conf.chatRooms[1].roomCreationRetries = 4
    /\ conf.chatRooms[1].retryTimers = 0
    /\ "ROOM_CONNECT_NOT_ALLOWED_ERROR" \in conf.fx

(* ------------------------------------------------------------------ *)
(* C36: the presence that was modified while the room was joining      *)
(* ------------------------------------------------------------------ *)
\* the keys and the values of the presence nodes that are set
PresenceKeys == { "nick" }
PresenceValues == { "a", "b" }

\* a caller of ChatRoom.addOrReplaceInPresence(key, values), which sends the
\* presence if the method returns true
ChatRoomAddOrReplaceInPresence(c, r, key, values) ==
    LET c0 == Begin(c, "addOrReplaceInPresence", "none")
        res == AddOrReplaceInPresence(c0.chatRooms[r].nodes, key, values)
    IN  IF ~res.changed THEN c0
        ELSE SendPresence([c0 EXCEPT !.chatRooms[r].nodes = res.nodes,
                                     !.chatRooms[r].presenceUpdateTime = c0.now],
                          r, FALSE)

\* a caller of ChatRoom.removeFromPresence(key), which sends the presence
ChatRoomRemoveFromPresence(c, r, key) ==
    LET c0 == Begin(c, "removeFromPresence", "none")
    IN  SendPresence([c0 EXCEPT !.chatRooms[r].nodes = RemoveFromPresence(@, key),
                                !.chatRooms[r].presenceUpdateTime = c0.now],
                     r, FALSE)

\* a node of the presence of the room of the conference is set
AddOrReplaceInPresenceStep ==
    /\ conf.emuc[<< "room" >>] = 1
    /\ \E key \in PresenceKeys, values \in PresenceValues :
          Commit(ChatRoomAddOrReplaceInPresence(conf, 1, key, values))
    /\ UNCHANGED << localTracks, pendingOps, el >>

\* a node of the presence of the room of the conference is removed
RemoveFromPresenceStep ==
    /\ conf.emuc[<< "room" >>] = 1
    /\ \E key \in PresenceKeys : Commit(ChatRoomRemoveFromPresence(conf, 1, key))
    /\ UNCHANGED << localTracks, pendingOps, el >>

\* a millisecond passes: Date.now() returns the next number
ClockStep ==
    /\ conf.now < MaxNow
    /\ Commit([Begin(conf, "clock", "none") EXCEPT !.now = @ + 1])
    /\ UNCHANGED << localTracks, pendingOps, el >>

\* Joining the room of the conference while its presence is modified.
NextPresenceSync ==
    \/ RoomJoinStep
    \/ PreJoinResolvedStep
    \/ SelfPresenceStep
    \/ AddOrReplaceInPresenceStep
    \/ RemoveFromPresenceStep
    \/ ClockStep

SpecPresenceSync == InitRoom /\ [][NextPresenceSync]_vars

\* C36: a presence that does not join is only sent by a room that has
\* joined, and when the join of the room is confirmed the presence the
\* server has been sent is the presence of the room, whatever was modified
\* after the presence that joins was sent.
PresenceSyncedWhenJoined ==
    [][/\ "sendPresence" \in conf'.fx => conf'.chatRooms[1].joined
       /\ (~conf.chatRooms[1].joined /\ conf'.chatRooms[1].joined) =>
              conf'.chatRooms[1].synced = conf'.chatRooms[1].nodes]_vars

(* ------------------------------------------------------------------ *)
(* C37: ChatRoom.leave() settles with the room cleaned up              *)
(* ------------------------------------------------------------------ *)
\* Leaving the room of the conference with the 5 s timer of
\* ChatRoom.leave(), which fires unless onMucLeft has cleared it.
SpecConferenceLeaveTimed ==
    InitRoom /\ [][NextConferenceLeave]_vars /\ WF_vars(LeaveTimeoutSettledStep)

\* C37: when the promise of ChatRoom.leave() settles, joined is false and
\* the room is not registered in the plugin; as long as it has not settled
\* the 5 s timer is armed, and once leave() has been called the promise
\* settles, whether the room confirms the leave or not.
LeaveSettlesCleanedUp ==
    /\ [][(conf.roomLeave.promise # "fulfilled" /\ conf'.roomLeave.promise = "fulfilled") =>
              /\ ~conf'.chatRooms[1].joined
              /\ ~IsRoomCreated(conf', conf'.chatRooms[1].roomjid)]_vars
    /\ [](conf.roomLeave.promise = "pending" => conf.roomLeave.timeout)
    /\ (conf.chatRooms[1].leaveCalled ~> conf.roomLeave.promise = "fulfilled")

\* C37 witness: the timer has fired on a room that had joined and whose
\* leave was never confirmed
LeaveSettlesCleanedUpWitness ==
    /\ conf.op = "leaveTimeout"
    /\ conf.roomLeave.promise = "fulfilled"
    /\ conf.roomLeave.confirmation = "rejected"
    /\ ~conf.chatRooms[1].joined
    /\ ~IsRoomCreated(conf, conf.chatRooms[1].roomjid)

(* ------------------------------------------------------------------ *)
(* C38: the unavailable presence of the own occupant                   *)
(* ------------------------------------------------------------------ *)
\* how often the handler that ran last emitted e about the JID jid
TimesEmittedAbout(c, e, jid) ==
    Cardinality({ i \in DOMAIN c.emitted : c.emitted[i].e = e /\ jid \in c.emitted[i].about })

\* the handler that ran last emitted e1, and every e2 ahead of it
EmittedAfter(c, e1, e2) ==
    \E i \in DOMAIN c.emitted :
        /\ c.emitted[i].e = e1
        /\ \A j \in DOMAIN c.emitted : c.emitted[j].e = e2 => j < i

\* what c2 shows of the members of the room before: every member is gone,
\* and MUC_MEMBER_LEFT was emitted once for each that is not the focus and
\* not at all for the focus
MembersRemoved(members, c2) ==
    /\ c2.chatRooms[1].members = << >>
    /\ \A i \in DOMAIN members :
          TimesEmittedAbout(c2, "MUC_MEMBER_LEFT", members[i].jid)
              = IF members[i].isFocus THEN 0 ELSE 1

\* what c2 shows of MUC_LEFT and KICKED: a kick emits KICKED ahead of every
\* MUC_MEMBER_LEFT and no MUC_LEFT; without a kick MUC_LEFT is emitted
\* after every MUC_MEMBER_LEFT
LeftOrKicked(isKick, c2) ==
    IF isKick
    THEN "MUC_LEFT" \notin c2.fx /\ EmittedBefore(c2, "KICKED", "MUC_MEMBER_LEFT")
    ELSE TimesEmitted(c2, "MUC_LEFT") = 1 /\ EmittedAfter(c2, "MUC_LEFT", "MUC_MEMBER_LEFT")

\* C38 as stated: every unavailable presence of the own occupant (status
\* 110) removes every member of the room, emits MUC_MEMBER_LEFT once for
\* each member that is not the focus, and emits MUC_LEFT after them unless
\* it is a kick, which emits KICKED ahead of them.
SelfUnavailableRemovesMembers ==
    [][(/\ conf'.op = "chatRoomOnPresenceUnavailable"
        /\ conf'.arg \in { "self", "selfKicked", "selfDestroyed", "selfIgnored" }) =>
            /\ MembersRemoved(conf.chatRooms[1].members, conf')
            /\ conf'.arg # "self" \/ LeftOrKicked(FALSE, conf')
            /\ conf'.arg # "selfKicked" \/ LeftOrKicked(TRUE, conf')]_vars

\* C38: an unavailable presence of the own occupant (status 110) that is
\* neither ignored nor that of a room that is destroyed removes every
\* member of the room, emits MUC_MEMBER_LEFT once for each member that is
\* not the focus, and emits MUC_LEFT after them unless it is a kick, which
\* emits KICKED ahead of them. One that is ignored changes and emits
\* nothing; that of a room that is destroyed emits MUC_DESTROYED, removes no
\* member and emits neither MUC_MEMBER_LEFT nor MUC_LEFT.
SelfUnavailableRemovesMembersUnlessDestroyed ==
    [][conf'.op = "chatRoomOnPresenceUnavailable" =>
          /\ conf'.arg \in { "self", "selfKicked" } =>
                /\ MembersRemoved(conf.chatRooms[1].members, conf')
                /\ LeftOrKicked(conf'.arg = "selfKicked", conf')
          /\ conf'.arg = "selfIgnored" =>
                /\ conf'.chatRooms = conf.chatRooms
                /\ conf'.fx = {}
          /\ conf'.arg = "selfDestroyed" =>
                /\ conf'.chatRooms = conf.chatRooms
                /\ "MUC_DESTROYED" \in conf'.fx
                /\ conf'.fx \cap { "MUC_MEMBER_LEFT", "MUC_LEFT" } = {}]_vars

\* C38 witness: the own occupant has been kicked out of a room with
\* another member in it
SelfUnavailableRemovesMembersWitness ==
    /\ conf.op = "chatRoomOnPresenceUnavailable" /\ conf.arg = "selfKicked"
    /\ conf.chatRooms[1].members = << >>
    /\ TimesEmitted(conf, "MUC_MEMBER_LEFT") = 1
    /\ EmittedBefore(conf, "KICKED", "MUC_MEMBER_LEFT")

(* ------------------------------------------------------------------ *)
(* C39: the rooms of the MUC connection plugin                         *)
(* ------------------------------------------------------------------ *)
\* the JIDs the plugin is handed: the bare JIDs of the rooms and those of
\* their occupants
PluginJids == { << b >> : b \in BareNodes } \cup { << b, id >> : b \in BareNodes, id \in { Focus, Self } }

\* what the record of a plugin call says of the JID it was handed: the node
\* of the room if the JID is bare, and that it is not if it has a resource
JidGiven(jid) == IF Len(jid) = 1 THEN jid[1] ELSE "withResource"

\* MucConnectionPlugin.onPresence(pres): the presence goes to the ChatRoom
\* registered under the bare JID of its sender, if there is one
EmucOnPresence(c, from) ==
    LET r == RoomOf(c, from)
    IN  IF r = Null THEN Begin(c, "emucOnPresence", "undispatched")
        ELSE ChatRoomOnPresence(c, r, from, GetResourceFromJid(from) = Focus)

\* MucConnectionPlugin.onPresenceUnavailable(pres)
EmucOnPresenceUnavailable(c, from, isKick) ==
    LET r == RoomOf(c, from)
    IN  IF r = Null THEN Begin(c, "emucOnPresenceUnavailable", "undispatched")
        ELSE ChatRoomOnPresenceUnavailable(c, r, from, from = c.chatRooms[r].myroomjid,
                                           isKick, FALSE, FALSE)

\* createRoom(jid, ...) of the plugin for the own occupant of a room
CreateRoomStep ==
    /\ Len(conf.chatRooms) < MaxRooms
    /\ \E b \in BareNodes :
          Commit(CreateRoom(Begin(conf, "createRoom", b), << b, Self >>))
    /\ UNCHANGED << localTracks, pendingOps, el >>

\* doLeave(jid) of the plugin
EmucDoLeaveStep ==
    /\ \E jid \in PluginJids :
          Commit(EmucDoLeave(Begin(conf, "emucDoLeave", JidGiven(jid)), jid))
    /\ UNCHANGED << localTracks, pendingOps, el >>

\* join() of a ChatRoom that is registered
ChatRoomJoinStep ==
    /\ \E b \in BareNodes :
          LET r == conf.emuc[<< b >>]
          IN  /\ r # Null
              /\ conf.chatRooms[r].preJoins = 0
              /\ conf.chatRooms[r].presenceSyncTime = << >>
              /\ Commit(Join(Begin(conf, "join", "none"), r))
    /\ UNCHANGED << localTracks, pendingOps, el >>

\* a presence of an occupant of a room arrives at the plugin
EmucOnPresenceStep ==
    /\ \E from \in PluginJids :
          /\ Len(from) = 2
          /\ RoomOf(conf, from) # Null => conf.chatRooms[RoomOf(conf, from)].presenceSyncTime # << >>
          /\ Commit(EmucOnPresence(conf, from))
    /\ UNCHANGED << localTracks, pendingOps, el >>

\* an unavailable presence of an occupant of a room arrives at the plugin
EmucOnPresenceUnavailableStep ==
    /\ \E from \in PluginJids, isKick \in BOOLEAN :
          /\ Len(from) = 2
          /\ RoomOf(conf, from) # Null => conf.chatRooms[RoomOf(conf, from)].presenceSyncTime # << >>
          /\ Commit(EmucOnPresenceUnavailable(conf, from, isKick))
    /\ UNCHANGED << localTracks, pendingOps, el >>

\* The plugin creates rooms and forgets them while presences arrive.
NextPlugin ==
    \/ CreateRoomStep
    \/ EmucDoLeaveStep
    \/ ChatRoomJoinStep
    \/ PreJoinResolvedStep
    \/ EmucOnPresenceStep
    \/ EmucOnPresenceUnavailableStep

SpecPlugin == InitRoom /\ [][NextPlugin]_vars

\* whether the ChatRoom r is registered in the plugin
Registered(c, r) == \E b \in DOMAIN c.emuc : c.emuc[b] = r

\* C39: a bare room JID has the ChatRoom that was created for it until
\* doLeave, never another; createRoom for a JID whose bare JID is registered
\* throws and changes neither the rooms nor the plugin; after doLeave for a
\* bare JID isRoomCreated is false for it and no JID of the room has a
\* ChatRoom to dispatch to, while doLeave for a JID with a resource forgets
\* no room; and a stanza changes no ChatRoom that is not registered.
OneRoomPerBareJid ==
    /\ [](\A b \in DOMAIN conf.emuc :
             conf.emuc[b] # Null => conf.chatRooms[conf.emuc[b]].roomjid = b)
    /\ [][/\ \A b \in DOMAIN conf.emuc :
                (conf.emuc[b] # Null /\ conf'.emuc[b] # Null) => conf'.emuc[b] = conf.emuc[b]
          /\ (conf'.op = "createRoom" /\ IsRoomCreated(conf, << conf'.arg >>)) =>
                /\ "Error" \in conf'.fx
                /\ conf'.chatRooms = conf.chatRooms
                /\ conf'.emuc = conf.emuc
          /\ (conf'.op = "emucDoLeave" /\ conf'.arg \in BareNodes) =>
                /\ ~IsRoomCreated(conf', << conf'.arg >>)
                /\ \A from \in PluginJids :
                      GetBareJidFromJid(from) = << conf'.arg >> => RoomOf(conf', from) = Null
          /\ (conf'.op = "emucDoLeave" /\ conf'.arg = "withResource") =>
                conf'.emuc = conf.emuc
          /\ conf'.op \in { "emucOnPresence", "emucOnPresenceUnavailable" } =>
                /\ conf'.arg = "undispatched"
                /\ conf'.chatRooms = conf.chatRooms
                /\ conf'.fx = {}
          /\ \A r \in DOMAIN conf.chatRooms :
                (conf'.op \in { "chatRoomOnPresence", "chatRoomOnPresenceUnavailable" }
                 /\ conf'.chatRooms[r] # conf.chatRooms[r]) => Registered(conf, r)
         ]_vars

\* C39 witness: a presence from the room of the conference, which doLeave
\* has forgotten, reaches no ChatRoom while the lobby room is registered
OneRoomPerBareJidWitness ==
    /\ conf.op = "emucOnPresence" /\ conf.arg = "undispatched"
    /\ ~IsRoomCreated(conf, << "room" >>)
    /\ IsRoomCreated(conf, << "lobby" >>)
    /\ Len(conf.chatRooms) = 2

====
